---- MODULE Spec2Model ----
(***************************************************************************)
(* Model of packages/type/src/reflection/compiler.ts: the instruction set, *)
(* the pack/unpack encoding, the CompilerProgram builder, the type walker  *)
(* of ReflectionTransformer and its hoisting pass.                         *)
(***************************************************************************)
EXTENDS Integers, Sequences, FiniteSets, TLC

\* ------------------------------------------------------------------------
\* Bounds of the model
\* ------------------------------------------------------------------------
MaxOpsLen == 3
MaxStackLen == 2
MaxCalls == 5
MaxCallDepth == 3
MaxReferences == 2
MaxHoists == 4
MaxDirs == 2
MaxReads == 3

\* ------------------------------------------------------------------------
\* ReflectionOp (the values the TypeScript enum assigns, in declaration order)
\* ------------------------------------------------------------------------
ReflectionOp ==
    [ never |-> 0, any |-> 1, void |-> 2, string |-> 3, number |-> 4,
      numberBrand |-> 5, boolean |-> 6, bigint |-> 7, null |-> 8,
      undefined |-> 9, literal |-> 10, function |-> 11, method |-> 12,
      methodSignature |-> 13, parameter |-> 14, property |-> 15,
      propertySignature |-> 16, constructor |-> 17, class |-> 18,
      classReference |-> 19, optional |-> 20, readonly |-> 21, public |-> 22,
      private |-> 23, protected |-> 24, abstract |-> 25, defaultValue |-> 26,
      description |-> 27, enum |-> 28, set |-> 29, map |-> 30,
      constEnum |-> 31, array |-> 32, union |-> 33, intersection |-> 34,
      indexSignature |-> 35, objectLiteral |-> 36, mappedType |-> 37,
      in |-> 38, frame |-> 39, return |-> 40, date |-> 41, int8Array |-> 42,
      uint8ClampedArray |-> 43, uint8Array |-> 44, int16Array |-> 45,
      uint16Array |-> 46, int32Array |-> 47, uint32Array |-> 48,
      float32Array |-> 49, float64Array |-> 50, bigInt64Array |-> 51,
      arrayBuffer |-> 52, promise |-> 53, pointer |-> 54, arg |-> 55,
      template |-> 56, var |-> 57, loads |-> 58, query |-> 59, keyof |-> 60,
      infer |-> 61, condition |-> 62, jumpCondition |-> 63, jump |-> 64,
      call |-> 65, inline |-> 66, inlineCall |-> 67, extends |-> 68 ]

packSizeByte == 6
packSize == 2 ^ packSizeByte

\* ------------------------------------------------------------------------
\* JavaScript values that occur in payloads.  A value is a record
\* [type, id, chars, items]: `type` is what typeof / isArray tell about it,
\* `chars` the char codes of an encoded string, `id` the identity of a
\* symbolic stack entry (a name, a literal node, a thunk), `items` the
\* elements of an array.
\* ------------------------------------------------------------------------
StrVal(chars) == [type |-> "string", id |-> "", chars |-> chars, items |-> <<>>]
SymVal(t, id) == [type |-> t, id |-> id, chars |-> <<>>, items |-> <<>>]
ArrVal(items) == [type |-> "array", id |-> "", chars |-> <<>>, items |-> items]
UndefinedVal == SymVal("undefined", "")

PackStruct(ops, stack) == [ops |-> ops, stack |-> stack]

\* String.fromCharCode(v + 33): the argument is taken modulo 2^16
fromCharCode(n) == n % 65536

encodeOpsMutNoOffset(ops) == ops

RECURSIVE encodeOps(_)
encodeOps(ops) ==
    IF ops = <<>> THEN <<>>
    ELSE <<fromCharCode(Head(ops) + 33)>> \o encodeOps(Tail(ops))

RECURSIVE unpackOps(_, _)
unpackOps(decodedOps, encodedOPs) ==
    IF encodedOPs = <<>> THEN decodedOps
    ELSE unpackOps(Append(decodedOps, Head(encodedOPs) - 33), Tail(encodedOPs))

packMutStackLast(packStruct) ==
    LET encodedOps == encodeOps(packStruct.ops)
    IN  IF Len(packStruct.stack) > 0
        THEN ArrVal(<<StrVal(encodedOps)>> \o packStruct.stack)
        ELSE StrVal(encodedOps)

\* pack(packOrOps) for a PackStruct argument
pack(packStruct) ==
    LET encodedOps == encodeOps(packStruct.ops)
    IN  IF Len(packStruct.stack) > 0
        THEN ArrVal(packStruct.stack \o <<StrVal(encodedOps)>>)
        ELSE StrVal(encodedOps)

unpackMutKeepLast(p) ==
    IF p.type = "string" THEN PackStruct(unpackOps(<<>>, p.chars), <<>>)
    ELSE PackStruct(unpackOps(<<>>, p.items[Len(p.items)].chars), p.items)

unpack(p) ==
    IF p.type = "string"
    THEN PackStruct(unpackOps(<<>>, p.chars), <<>>)
    ELSE LET encodedOPs == p.items[Len(p.items)]
         IN  IF encodedOPs.type # "string"
             THEN PackStruct(<<>>, <<>>)
             ELSE PackStruct(unpackOps(<<>>, encodedOPs.chars),
                             IF Len(p.items) > 1
                             THEN SubSeq(p.items, 1, Len(p.items) - 1)
                             ELSE <<>>)

\* ------------------------------------------------------------------------
\* CompilerProgram.  The linked list of frames (Frame.previous) is the
\* sequence `frame`: frame[1] is the root frame, the last element is the
\* current frame (this.frame), and a Frame reference is a position in it.
\* ------------------------------------------------------------------------
Frame(opIndex) ==
    [variables |-> <<>>, opIndex |-> opIndex, conditional |-> FALSE]

NewCompilerProgram ==
    [ ops |-> <<>>, stack |-> <<>>, mainOffset |-> 0, stackPosition |-> 0,
      frame |-> <<Frame(0)>>, activeCoRoutines |-> <<>>, coRoutines |-> <<>> ]

\* Array.prototype.splice(start, 0, ...items): a start beyond the end inserts
\* at the end
splice(arr, start, items) ==
    LET at == IF start > Len(arr) THEN Len(arr) ELSE start
    IN  SubSeq(arr, 1, at) \o items \o SubSeq(arr, at + 1, Len(arr))

\* Array.prototype.indexOf, -1 when absent
indexOf(arr, entry) ==
    IF \E i \in 1..Len(arr) : arr[i] = entry
    THEN (CHOOSE i \in 1..Len(arr) :
              arr[i] = entry /\ \A j \in 1..(i - 1) : arr[j] # entry) - 1
    ELSE -1

\* the loop of buildPackStruct: for (i = length - 1; i >= 0; i--) unshift
RECURSIVE unshiftCoRoutines(_, _, _)
unshiftCoRoutines(ops, coRoutines, i) ==
    IF i < 0 THEN ops
    ELSE unshiftCoRoutines(coRoutines[i + 1] \o ops, coRoutines, i - 1)

buildPackStruct(p) ==
    LET ops1 == IF Len(p.coRoutines) > 0
                THEN unshiftCoRoutines(p.ops, p.coRoutines, Len(p.coRoutines) - 1)
                ELSE p.ops
        ops2 == IF p.mainOffset # 0
                THEN <<ReflectionOp.jump, p.mainOffset>> \o ops1
                ELSE ops1
    IN  PackStruct(ops2, p.stack)

isEmpty(p) == Len(p.ops) = 0

pushOp(p, ops) ==
    IF Len(p.activeCoRoutines) > 0
    THEN [p EXCEPT !.activeCoRoutines[Len(p.activeCoRoutines)] = @ \o ops]
    ELSE [p EXCEPT !.ops = @ \o ops]

pushOpAtFrame(p, f, ops) ==
    IF Len(p.activeCoRoutines) > 0
    THEN [p EXCEPT !.activeCoRoutines[Len(p.activeCoRoutines)] =
                        splice(@, p.frame[f].opIndex, ops)]
    ELSE [p EXCEPT !.ops = splice(@, p.frame[f].opIndex, ops)]

pushFrame(p, implicit) ==
    LET p1 == IF ~implicit THEN pushOp(p, <<ReflectionOp.frame>>) ELSE p
        opIndex == IF Len(p1.activeCoRoutines) > 0
                   THEN Len(p1.activeCoRoutines[Len(p1.activeCoRoutines)])
                   ELSE Len(p1.ops)
    IN  [p1 EXCEPT !.frame = Append(@, Frame(opIndex))]

pushConditionalFrame(p) ==
    LET p1 == pushFrame(p, FALSE)
    IN  [p1 EXCEPT !.frame[Len(p1.frame)].conditional = TRUE]

popFrame(p) ==
    IF Len(p.frame) > 1
    THEN [p EXCEPT !.frame = SubSeq(@, 1, Len(@) - 1)]
    ELSE p

\* returns the program and the returned index
pushStack(p, item) ==
    [ program |-> [p EXCEPT !.stack = Append(@, item),
                            !.stackPosition = @ + 1],
      result |-> p.stackPosition ]

findOrAddStackEntry(p, entry) ==
    LET index == indexOf(p.stack, entry)
    IN  IF index # -1 THEN [program |-> p, result |-> index]
        ELSE pushStack(p, entry)

increaseStackPosition(p) ==
    [program |-> [p EXCEPT !.stackPosition = @ + 1], result |-> p.stackPosition]

\* pushCoRoutine without the implicit frame of the coroutine
pushCoRoutineMutNoFrame(p) ==
    [p EXCEPT !.activeCoRoutines = Append(@, <<>>)]

pushCoRoutine(p) ==
    LET p1 == pushFrame(p, TRUE)
    IN  [p1 EXCEPT !.activeCoRoutines = Append(@, <<>>)]

popCoRoutineMutNoPrelude(p) ==
    IF Len(p.activeCoRoutines) = 0
    THEN [program |-> p, result |-> -1, error |-> "No active co routine found"]
    ELSE LET coRoutine == p.activeCoRoutines[Len(p.activeCoRoutines)]
             p1 == [p EXCEPT !.activeCoRoutines = SubSeq(@, 1, Len(@) - 1)]
             p2 == popFrame(p1)
             closed == Append(coRoutine, ReflectionOp.return)
         IN  [ program |-> [p2 EXCEPT !.coRoutines = Append(@, closed),
                                      !.mainOffset = @ + Len(closed)],
               result |-> p2.mainOffset,
               error |-> "" ]

\* popCoRoutine with the frame closed before the coroutine is looked for
popCoRoutineMutPopFrameFirst(p) ==
    IF Len(p.activeCoRoutines) = 0
    THEN [program |-> popFrame(p), result |-> -1,
          error |-> "No active co routine found"]
    ELSE popCoRoutineMutNoPrelude([p EXCEPT !.mainOffset =
                                       IF @ = 0 THEN 2 ELSE @])

\* returns the program, the returned start index and the error thrown, if any
popCoRoutine(p) ==
    IF Len(p.activeCoRoutines) = 0
    THEN [program |-> p, result |-> -1, error |-> "No active co routine found"]
    ELSE LET coRoutine == p.activeCoRoutines[Len(p.activeCoRoutines)]
             p1 == [p EXCEPT !.activeCoRoutines = SubSeq(@, 1, Len(@) - 1)]
             p2 == popFrame(p1)
             p3 == IF p2.mainOffset = 0 THEN [p2 EXCEPT !.mainOffset = 2] ELSE p2
             startIndex == p3.mainOffset
             closed == Append(coRoutine, ReflectionOp.return)
         IN  [ program |-> [p3 EXCEPT !.coRoutines = Append(@, closed),
                                      !.mainOffset = @ + Len(closed)],
               result |-> startIndex,
               error |-> "" ]

\* pushVariable(name, frame): f is the position of `frame` in the chain
pushVariable(p, name, f) ==
    LET p1 == pushOpAtFrame(p, f, <<ReflectionOp.var>>)
        variable == [index |-> Len(p1.frame[Len(p1.frame)].variables),
                     name |-> name]
        p2 == [p1 EXCEPT !.frame[f].variables = Append(@, variable)]
    IN  [program |-> p2, result |-> Len(p2.frame[f].variables) - 1]

pushTemplateParameter(p, name) ==
    LET e == findOrAddStackEntry(p, SymVal("string", name))
        p1 == pushOp(e.program, <<ReflectionOp.template, e.result>>)
        cur == Len(p1.frame)
        variable == [index |-> Len(p1.frame[cur].variables), name |-> name]
        p2 == [p1 EXCEPT !.frame[cur].variables = Append(@, variable)]
    IN  [program |-> p2, result |-> Len(p2.frame[cur].variables) - 1]

\* frame.variables.find(v => v.name === name)
HasVariable(fr, name) == \E i \in 1..Len(fr.variables) : fr.variables[i].name = name
FindInFrame(fr, name) ==
    fr.variables[CHOOSE i \in 1..Len(fr.variables) :
                    /\ fr.variables[i].name = name
                    /\ \A j \in 1..(i - 1) : fr.variables[j].name # name]

RECURSIVE findVariableFromMutSameOffset(_, _, _, _)
findVariableFromMutSameOffset(frames, f, name, frameOffset) ==
    IF HasVariable(frames[f], name)
    THEN [found |-> TRUE, frameOffset |-> frameOffset,
          stackIndex |-> FindInFrame(frames[f], name).index]
    ELSE IF f > 1
         THEN findVariableFromMutSameOffset(frames, f - 1, name, frameOffset)
         ELSE [found |-> FALSE, frameOffset |-> 0, stackIndex |-> 0]

\* findVariable(frame, name, frameOffset), frame given by its position f
RECURSIVE findVariableFrom(_, _, _, _)
findVariableFrom(frames, f, name, frameOffset) ==
    IF HasVariable(frames[f], name)
    THEN [found |-> TRUE, frameOffset |-> frameOffset,
          stackIndex |-> FindInFrame(frames[f], name).index]
    ELSE IF f > 1
         THEN findVariableFrom(frames, f - 1, name, frameOffset + 1)
         ELSE [found |-> FALSE, frameOffset |-> 0, stackIndex |-> 0]

findVariable(p, name) == findVariableFrom(p.frame, Len(p.frame), name, 0)

\* findConditionalFrame(frame): the position of the frame found, 0 if none
RECURSIVE findConditionalFrameFrom(_, _)
findConditionalFrameFrom(frames, f) ==
    IF frames[f].conditional THEN f
    ELSE IF f > 1 THEN findConditionalFrameFrom(frames, f - 1)
         ELSE 0

findConditionalFrame(p) == findConditionalFrameFrom(p.frame, Len(p.frame))

\* ------------------------------------------------------------------------
\* Syntax tree nodes.  Every node is a record of one shape:
\*   kind       the SyntaxKind
\*   name       the text of its name / typeName / typeParameter name
\*   types      its child nodes, in the order the walker visits them
\*   params     the names of its type parameters
\*   heritage   the names in its `extends` clause
\*   mods       its tokens and modifiers
\*   reflection the comment of its @reflection doc tag, "" without one
\*   body       the nodes of its initializer or body that the visitor reaches
\* ------------------------------------------------------------------------
Node(kind, name, types, params, heritage, mods) ==
    [ kind |-> kind, name |-> name, types |-> types, params |-> params,
      heritage |-> heritage, mods |-> mods, reflection |-> "", body |-> <<>> ]

NoNode == Node("Undefined", "", <<>>, <<>>, <<>>, {})

Keyword(kind) == Node(kind, "", <<>>, <<>>, <<>>, {})
TypeReference(name) == Node("TypeReference", name, <<>>, <<>>, <<>>, {})
TypeReferenceWith(name, typeArguments) ==
    Node("TypeReference", name, typeArguments, <<>>, <<>>, {"typeArguments"})
InferType(name) == Node("InferType", name, <<>>, <<>>, <<>>, {})
UnionType(types) == Node("UnionType", "", types, <<>>, <<>>, {})
IntersectionType(types) == Node("IntersectionType", "", types, <<>>, <<>>, {})
ArrayType(elementType) == Node("ArrayType", "", <<elementType>>, <<>>, <<>>, {})
ParenthesizedType(type) == Node("ParenthesizedType", "", <<type>>, <<>>, <<>>, {})
ConditionalType(checkType, extendsType, trueType, falseType) ==
    Node("ConditionalType", "", <<checkType, extendsType, trueType, falseType>>,
         <<>>, <<>>, {})
PropertySignature(name, type, mods) ==
    Node("PropertySignature", name, <<type>>, <<>>, <<>>, mods)
PropertyDeclaration(name, type, mods) ==
    Node("PropertyDeclaration", name, <<type>>, <<>>, <<>>, mods)
TypeLiteral(members) == Node("TypeLiteral", "", members, <<>>, <<>>, {})
InterfaceDeclaration(name, params, heritage, members) ==
    Node("InterfaceDeclaration", name, members, params, heritage, {})
TypeAliasDeclaration(name, params, type) ==
    Node("TypeAliasDeclaration", name, <<type>>, params, <<>>, {})
ClassDeclaration(name, params, members) ==
    Node("ClassDeclaration", name, members, params, <<>>, {})
EnumDeclaration(name) == Node("EnumDeclaration", name, <<>>, <<>>, <<>>, {})
Parameter(name, type, mods) == Node("Parameter", name, <<type>>, <<>>, <<>>, mods)
\* a function-like node: its parameters followed by its return type
FunctionLike(kind, name, parameters, type, mods) ==
    Node(kind, name, parameters \o <<type>>, <<>>, <<>>, mods)
\* { [name in constraint]: type }
MappedType(name, constraint, type, mods) ==
    Node("MappedType", name, <<constraint, type>>, <<>>, <<>>, mods)
TypeOperator(operator, type) ==
    Node("TypeOperator", "", <<type>>, <<>>, <<>>, {operator})
IndexedAccessType(objectType, indexType) ==
    Node("IndexedAccessType", "", <<objectType, indexType>>, <<>>, <<>>, {})
IndexSignature(parameterType, type) ==
    Node("IndexSignature", "", <<parameterType, type>>, <<>>, <<>>, {})
LiteralType(literal) == Node("LiteralType", literal, <<>>, <<>>, <<>>, {})

FunctionLikeKinds ==
    { "MethodDeclaration", "Constructor", "ArrowFunction", "FunctionExpression",
      "FunctionType", "FunctionDeclaration" }

\* the keyword cases of extractPackStructOfType
KeywordOps ==
    [ StringKeyword |-> ReflectionOp.string, NumberKeyword |-> ReflectionOp.number,
      BooleanKeyword |-> ReflectionOp.boolean, BigIntKeyword |-> ReflectionOp.bigint,
      VoidKeyword |-> ReflectionOp.void, NullKeyword |-> ReflectionOp.null,
      NeverKeyword |-> ReflectionOp.never, AnyKeyword |-> ReflectionOp.any,
      UndefinedKeyword |-> ReflectionOp.undefined ]

knownClasses ==
    [ Int8Array |-> ReflectionOp.int8Array, Uint8Array |-> ReflectionOp.uint8Array,
      Uint8ClampedArray |-> ReflectionOp.uint8ClampedArray,
      Int16Array |-> ReflectionOp.int16Array, Uint16Array |-> ReflectionOp.uint16Array,
      Int32Array |-> ReflectionOp.int32Array, Uint32Array |-> ReflectionOp.uint32Array,
      Float32Array |-> ReflectionOp.float32Array,
      Float64Array |-> ReflectionOp.float64Array,
      ArrayBuffer |-> ReflectionOp.arrayBuffer,
      BigInt64Array |-> ReflectionOp.bigInt64Array, Date |-> ReflectionOp.date,
      String |-> ReflectionOp.string, Number |-> ReflectionOp.number,
      BigInt |-> ReflectionOp.bigint, Boolean |-> ReflectionOp.boolean ]

\* TypeNumberBrand of ./type, in the order the brands are listed
TypeNumberBrand == [integer |-> 0, int8 |-> 1, int16 |-> 2]

\* OPs: the number of parameters of an op, 0 for an op without an entry
OPs ==
    [ op \in 0..(ReflectionOp.extends) |->
        CASE op \in { ReflectionOp.literal, ReflectionOp.pointer, ReflectionOp.arg,
                      ReflectionOp.classReference, ReflectionOp.propertySignature,
                      ReflectionOp.property, ReflectionOp.jump, ReflectionOp.enum,
                      ReflectionOp.template, ReflectionOp.call, ReflectionOp.inline,
                      ReflectionOp.defaultValue, ReflectionOp.parameter,
                      ReflectionOp.method, ReflectionOp.description,
                      ReflectionOp.numberBrand } -> 1
          [] op \in { ReflectionOp.mappedType, ReflectionOp.inlineCall,
                      ReflectionOp.loads, ReflectionOp.infer } -> 2
          [] OTHER -> 0 ]

MappedModifier ==
    [optional |-> 1, removeOptional |-> 2, readonly |-> 4, removeReadonly |-> 8]

\* parseReflectionMode(mode): "<true>" and "<false>" stand for the booleans,
\* "" for undefined and the empty string
parseReflectionMode(mode) ==
    IF mode = "<true>" THEN "default"
    ELSE IF mode = "<false>" THEN "never"
    ELSE IF mode = "" THEN "never"
    ELSE mode

\* ------------------------------------------------------------------------
\* findReflectionConfig(node) in full.  The node and its ancestors are a
\* sequence, the node first, of the comments of each node's `@reflection`
\* tags ("<undefined>" for a tag without text).  A directory is a record
\*   exists      a tsconfig.json is in it
\*   parses      its content is JSON
\*   reflection  its `reflection` key: "<undefined>" without one, "<true>" and
\*               "<false>" for the booleans
\* ------------------------------------------------------------------------
Directory(exists, parses, reflection) ==
    [exists |-> exists, parses |-> parses, reflection |-> reflection]

\* the do-while over node and parents: the mode of the first `reflection` tag
\* whose comment is a string, "<none>" when the root is passed
RECURSIVE jsDocReflection(_)
jsDocReflection(path) ==
    IF path = <<>> THEN "<none>"
    ELSE LET comments == SelectSeq(Head(path), LAMBDA comment : comment # "<undefined>")
         IN  IF comments # <<>>
             THEN parseReflectionMode(IF comments[1] = "" THEN "<true>" ELSE comments[1])
             ELSE jsDocReflection(Tail(path))

\* the while over the directories, from directory i upwards
RECURSIVE tsConfigReflection(_, _, _, _)
tsConfigReflection(dirs, i, resolved, reads) ==
    IF i > Len(dirs) THEN [mode |-> "never", reads |-> reads]
    ELSE IF ~dirs[i].exists THEN tsConfigReflection(dirs, i + 1, resolved, reads)
    ELSE LET read == IF i \in resolved THEN reads ELSE Append(reads, i)
         IN  IF i \notin resolved /\ ~dirs[i].parses
             THEN tsConfigReflection(dirs, i + 1, resolved, read)
             ELSE IF dirs[i].reflection # "<undefined>"
             THEN [mode |-> parseReflectionMode(dirs[i].reflection), reads |-> read]
             ELSE tsConfigReflection(dirs, i + 1, resolved, read)

\* findReflectionConfig consulting the override before the doc tags
findReflectionConfigMutOverrideFirst(path, override, dirs, resolved) ==
    IF override # "<undefined>"
    THEN [mode |-> override, reads |-> <<>>]
    ELSE IF jsDocReflection(path) # "<none>"
    THEN [mode |-> jsDocReflection(path), reads |-> <<>>]
    ELSE tsConfigReflection(dirs, 1, resolved, <<>>)

findReflectionConfig(path, override, dirs, resolved) ==
    IF jsDocReflection(path) # "<none>"
    THEN [mode |-> jsDocReflection(path), reads |-> <<>>]
    ELSE IF override # "<undefined>"
    THEN [mode |-> override, reads |-> <<>>]
    ELSE tsConfigReflection(dirs, 1, resolved, <<>>)

\* ------------------------------------------------------------------------
\* The declarations the type checker resolves names to: for each name the
\* declaration resolveDeclaration returns and whether the name was reached
\* through an import specifier.  A name outside the table does not resolve.
\* ------------------------------------------------------------------------
StringKeyword == Keyword("StringKeyword")
NumberKeyword == Keyword("NumberKeyword")
NeverKeyword == Keyword("NeverKeyword")

DeclA == TypeAliasDeclaration("A", <<>>, StringKeyword)
DeclB == TypeAliasDeclaration("B", <<>>, TypeReference("A"))
DeclC ==
    TypeAliasDeclaration("C", <<>>,
        TypeLiteral(<<PropertySignature("next", TypeReference("C"), {})>>))
DeclBox ==
    InterfaceDeclaration("Box", <<"T">>, <<>>,
        <<PropertySignature("v", TypeReference("T"), {})>>)
DeclPartial ==
    TypeAliasDeclaration("Partial", <<"T">>,
        MappedType("P", TypeOperator("keyof", TypeReference("T")),
                   IndexedAccessType(TypeReference("T"), TypeReference("P")),
                   {"question"}))
DeclBase ==
    InterfaceDeclaration("Base", <<>>, <<>>,
        << PropertySignature("id", NumberKeyword, {}),
           PropertySignature("name", StringKeyword, {}) >>)
DeclDerived ==
    InterfaceDeclaration("Derived", <<>>, <<"Base">>,
        <<PropertySignature("id", StringKeyword, {})>>)
\* interface Mid extends Base { name: number; extra: { id: string } }
DeclMid ==
    InterfaceDeclaration("Mid", <<>>, <<"Base">>,
        << PropertySignature("name", NumberKeyword, {}),
           PropertySignature("extra",
               TypeLiteral(<<PropertySignature("id", StringKeyword, {})>>), {}) >>)
\* interface Leaf extends Mid, Base { id: string }
DeclLeaf ==
    InterfaceDeclaration("Leaf", <<>>, <<"Mid", "Base">>,
        <<PropertySignature("id", StringKeyword, {})>>)
\* interface Loop extends Loop { a: string }
DeclLoop ==
    InterfaceDeclaration("Loop", <<>>, <<"Loop">>,
        <<PropertySignature("a", StringKeyword, {})>>)
\* interface Ping extends Pong { a: string }
DeclPing ==
    InterfaceDeclaration("Ping", <<>>, <<"Pong">>,
        <<PropertySignature("a", StringKeyword, {})>>)
\* interface Pong extends Ping { b: number }
DeclPong ==
    InterfaceDeclaration("Pong", <<>>, <<"Ping">>,
        <<PropertySignature("b", NumberKeyword, {})>>)
DeclModel ==
    ClassDeclaration("Model", <<>>,
        <<PropertyDeclaration("title", StringKeyword, {})>>)
DeclColor == EnumDeclaration("Color")
DeclForeign == TypeAliasDeclaration("Foreign", <<>>, NumberKeyword)
DeclForeignLiteral ==
    TypeLiteral(<<PropertySignature("x", StringKeyword, {})>>)

\* function f<T>(type: ReceiveType<T>) {}
DeclReceive ==
    [FunctionLike("FunctionDeclaration", "f",
         <<Parameter("type", TypeReferenceWith("ReceiveType", <<TypeReference("T")>>),
                     {})>>, NoNode, {})
       EXCEPT !.params = <<"T">>]
\* function g<A, B>(a: string, type: ReceiveType<B>, c: number) {}
DeclReceiveSecond ==
    [FunctionLike("FunctionDeclaration", "g",
         << Parameter("a", StringKeyword, {}),
            Parameter("type", TypeReferenceWith("ReceiveType", <<TypeReference("B")>>),
                      {}),
            Parameter("c", NumberKeyword, {}) >>, NoNode, {})
       EXCEPT !.params = <<"A", "B">>]
\* function h<T>(a: T) {}
DeclGeneric ==
    [FunctionLike("FunctionDeclaration", "h",
         <<Parameter("a", TypeReference("T"), {})>>, NoNode, {})
       EXCEPT !.params = <<"T">>]

Resolved(declaration, importSpecifier) ==
    [declaration |-> declaration, importSpecifier |-> importSpecifier]

Declarations ==
    [ A |-> Resolved(DeclA, FALSE),
      B |-> Resolved(DeclB, FALSE),
      C |-> Resolved(DeclC, FALSE),
      Box |-> Resolved(DeclBox, FALSE),
      Partial |-> Resolved(DeclPartial, FALSE),
      Base |-> Resolved(DeclBase, FALSE),
      Derived |-> Resolved(DeclDerived, FALSE),
      Mid |-> Resolved(DeclMid, FALSE),
      Leaf |-> Resolved(DeclLeaf, FALSE),
      Loop |-> Resolved(DeclLoop, FALSE),
      Ping |-> Resolved(DeclPing, FALSE),
      Pong |-> Resolved(DeclPong, FALSE),
      f |-> Resolved(DeclReceive, FALSE),
      g |-> Resolved(DeclReceiveSecond, FALSE),
      h |-> Resolved(DeclGeneric, FALSE),
      Model |-> Resolved(DeclModel, FALSE),
      Color |-> Resolved(DeclColor, FALSE),
      Foreign |-> Resolved(DeclForeign, TRUE),
      ForeignLiteral |-> Resolved(DeclForeignLiteral, TRUE) ]

\* resolveDeclaration with a declaration found for every name
resolveDeclarationMutAlwaysFound(name) ==
    IF name \in DOMAIN Declarations
    THEN [found |-> TRUE, declaration |-> Declarations[name].declaration,
          importSpecifier |-> Declarations[name].importSpecifier]
    ELSE [found |-> TRUE, declaration |-> DeclA, importSpecifier |-> FALSE]

\* resolveDeclaration(e) for the name `name`; found is FALSE for undefined
resolveDeclaration(name) ==
    IF name \in DOMAIN Declarations
    THEN [found |-> TRUE, declaration |-> Declarations[name].declaration,
          importSpecifier |-> Declarations[name].importSpecifier]
    ELSE [found |-> FALSE, declaration |-> NoNode, importSpecifier |-> FALSE]

\* getDeclarationVariableName(typeName)
getDeclarationVariableName(name) == SymVal("identifier", "__Omega" \o name)

\* Map.set on compileDeclarations / embedDeclarations; a declaration is
\* identified by the name it is declared under
MapSet(m, declaration, name) ==
    {e \in m : e.declaration # declaration}
        \cup {[declaration |-> declaration, name |-> name]}
MapHas(m, declaration) == \E e \in m : e.declaration = declaration
MapGet(m, declaration) == CHOOSE e \in m : e.declaration = declaration
MapDelete(m, declaration) == {e \in m : e.declaration # declaration}

\* ------------------------------------------------------------------------
\* ReflectionTransformer: the walker.  A walk reads and writes the record
\*   program               the CompilerProgram passed along
\*   compileDeclarations,
\*   embedDeclarations     the two maps of the transformer
\*   syntheticImports      the import specifiers flagged NodeFlags.Synthesized
\*   mode                  the reflection mode that governs the parent node
\*   emitted               each pushOp call of the walker: opcode, operand
\*                         count, operands, and the frames open at the call
\*   inferLog              each `infer` emission: name, operands, frame depth
\*   error                 the message of an Error thrown, "" if none
\* ------------------------------------------------------------------------
WalkState(program, mode) ==
    [ program |-> program, compileDeclarations |-> {}, embedDeclarations |-> {},
      syntheticImports |-> {}, mode |-> mode, emitted |-> <<>>,
      inferLog |-> <<>>, error |-> "" ]

WithProgram(c, p) == [c EXCEPT !.program = p]

\* new CompilerProgram() for the next carrier or declaration
WithNewProgram(c) ==
    [c EXCEPT !.program = NewCompilerProgram, !.emitted = <<>>, !.inferLog = <<>>]

\* program.pushOp(op, ...operands) called by the walker
Emit(c, ops) ==
    [c EXCEPT !.program = pushOp(@, ops),
              !.emitted = Append(@, [op |-> ops[1], operands |-> Len(ops) - 1,
                                     args |-> Tail(ops),
                                     depth |-> Len(c.program.frame)])]

EmitIf(cond, c, ops) == IF cond THEN Emit(c, ops) ELSE c

\* program.pushOp(op, program.findOrAddStackEntry(entry))
EmitWithEntry(c, op, entry) ==
    LET r == findOrAddStackEntry(c.program, entry)
    IN  Emit(WithProgram(c, r.program), <<op, r.result>>)

\* program.pushOp(op, program.pushStack(entry))
EmitWithPushed(c, op, entry) ==
    LET r == pushStack(c.program, entry)
    IN  Emit(WithProgram(c, r.program), <<op, r.result>>)

\* the mode findReflectionConfig resolves for `node` when `inherited` is what
\* its ancestors, the override and the project configuration resolve to
findReflectionConfigAt(node, inherited) ==
    IF node.reflection # "" THEN parseReflectionMode(node.reflection)
    ELSE inherited

RECURSIVE pushTemplateParameters(_, _)
pushTemplateParameters(names, c) ==
    IF names = <<>> THEN c
    ELSE pushTemplateParameters(Tail(names),
            WithProgram(c, pushTemplateParameter(c.program, Head(names)).program))

mappedModifier(node) ==
    (IF "question" \in node.mods THEN MappedModifier.optional ELSE 0)
    + (IF "minusQuestion" \in node.mods THEN MappedModifier.removeOptional ELSE 0)
    + (IF "readonly" \in node.mods THEN MappedModifier.readonly ELSE 0)
    + (IF "minusReadonly" \in node.mods THEN MappedModifier.removeReadonly ELSE 0)

RECURSIVE extractPackStructOfType(_, _)
RECURSIVE extractAll(_, _)
RECURSIVE extractMemberList(_, _, _)
RECURSIVE extractMembers(_, _, _, _)
RECURSIVE extractHeritage(_, _, _, _)
RECURSIVE extractParameters(_, _, _)
RECURSIVE extractPackStructOfTypeReference(_, _)

\* for (const type of types) this.extractPackStructOfType(type, program)
extractAll(nodes, c) ==
    IF nodes = <<>> THEN c
    ELSE extractAll(Tail(nodes), extractPackStructOfType(Head(nodes), c))

\* the member loop without the test for a name already pushed
RECURSIVE extractMemberListMutNoSkip(_, _, _)
extractMemberListMutNoSkip(list, members, c) ==
    IF list = <<>> THEN [c |-> c, members |-> members]
    ELSE extractMemberListMutNoSkip(Tail(list), members \cup {Head(list).name},
                                    extractPackStructOfType(Head(list), c))

\* the member loop of the class and the interface cases: a member whose name
\* was already pushed to `members` is skipped
extractMemberList(list, members, c) ==
    IF list = <<>> THEN [c |-> c, members |-> members]
    ELSE LET member == Head(list)
         IN  IF member.name # "" /\ member.name \in members
             THEN extractMemberList(Tail(list), members, c)
             ELSE extractMemberList(Tail(list), members \cup {member.name},
                                    extractPackStructOfType(member, c))

extractHeritage(names, members, c, depth) ==
    IF names = <<>> THEN [c |-> c, members |-> members]
    ELSE LET resolved == resolveDeclaration(Head(names))
         IN  IF resolved.found /\ resolved.declaration.kind = "InterfaceDeclaration"
             THEN LET r == extractMembers(resolved.declaration, members, c, depth + 1)
                  IN  extractHeritage(Tail(names), r.members, r.c, depth)
             ELSE extractHeritage(Tail(names), members, c, depth)

\* the closure extractMembers; depth is the depth of its recursion
extractMembers(declaration, members, c, depth) ==
    IF depth > MaxCallDepth
    THEN [c |-> [c EXCEPT !.error = "Maximum call stack size exceeded"],
          members |-> members]
    ELSE LET r == extractMemberList(declaration.types, members, c)
         IN  IF r.c.error # "" THEN r
             ELSE IF declaration.kind = "InterfaceDeclaration"
                  THEN extractHeritage(declaration.heritage, r.members, r.c, depth)
                  ELSE r

\* the parameter loop of the function-like case
extractParameters(parameters, narrowed, c) ==
    IF parameters = <<>> THEN c
    ELSE LET parameter == Head(parameters)
         IN  IF "bindingPattern" \in parameter.mods
             THEN extractParameters(Tail(parameters), narrowed, c)
             ELSE LET c1 == IF parameter.types[1].kind # "Undefined"
                            THEN extractPackStructOfType(parameter.types[1], c)
                            ELSE Emit(c, <<ReflectionOp.any>>)
                      c2 == EmitWithEntry(c1, ReflectionOp.parameter,
                                          SymVal("string", parameter.name))
                      c3 == EmitIf("question" \in parameter.mods, c2,
                                   <<ReflectionOp.optional>>)
                      c4 == EmitIf("public" \in parameter.mods, c3,
                                   <<ReflectionOp.public>>)
                      c5 == EmitIf("private" \in parameter.mods, c4,
                                   <<ReflectionOp.private>>)
                      c6 == EmitIf("protected" \in parameter.mods, c5,
                                   <<ReflectionOp.protected>>)
                      c7 == EmitIf("readonly" \in narrowed.mods, c6,
                                   <<ReflectionOp.readonly>>)
                 IN  extractParameters(Tail(parameters), narrowed, c7)

extractClass(node, c) ==
    LET empty == isEmpty(c.program)
        c1 == IF ~empty THEN WithProgram(c, pushFrame(c.program, FALSE)) ELSE c
        c2 == pushTemplateParameters(node.params, c1)
        below == [c2 EXCEPT !.mode = findReflectionConfigAt(node, c.mode)]
        c3 == [extractMemberList(node.types, {}, below).c EXCEPT !.mode = c.mode]
        c4 == Emit(c3, <<ReflectionOp.class>>)
    IN  IF ~empty THEN WithProgram(c4, popFrame(c4.program)) ELSE c4

extractIntersection(node, c) ==
    LET empty == isEmpty(c.program)
        c1 == IF ~empty THEN WithProgram(c, pushFrame(c.program, FALSE)) ELSE c
        c2 == extractAll(node.types, c1)
    IN  Emit(c2, <<ReflectionOp.intersection>>)

extractMappedType(node, c) ==
    LET c1 == WithProgram(c, pushFrame(c.program, FALSE))
        c2 == WithProgram(c1,
                  pushVariable(c1.program, node.name, Len(c1.program.frame)).program)
        c3 == IF node.types[1].kind # "Undefined"
              THEN extractPackStructOfType(node.types[1], c2)
              ELSE Emit(c2, <<ReflectionOp.never>>)
        c4 == WithProgram(c3, pushCoRoutine(c3.program))
        modifier == mappedModifier(node)
        c5 == IF node.types[2].kind # "Undefined"
              THEN extractPackStructOfType(node.types[2], c4)
              ELSE Emit(c4, <<ReflectionOp.never>>)
        r == popCoRoutine(c5.program)
    IN  IF r.error # "" THEN [c5 EXCEPT !.error = r.error]
        ELSE LET c6 == Emit(WithProgram(c5, r.program),
                            <<ReflectionOp.mappedType, r.result, modifier>>)
             IN  WithProgram(c6, popFrame(c6.program))

\* the interface and type literal case without the frame it opens
extractObjectLiteralMutNoFrame(node, c) ==
    LET r == extractMembers(node, {}, c, 0)
    IN  IF r.c.error # "" THEN r.c
        ELSE Emit(r.c, <<ReflectionOp.objectLiteral>>)

extractObjectLiteral(node, c) ==
    LET c1 == WithProgram(c, pushFrame(c.program, FALSE))
        r == extractMembers(node, {}, c1, 0)
    IN  IF r.c.error # "" THEN r.c
        ELSE LET c2 == Emit(r.c, <<ReflectionOp.objectLiteral>>)
             IN  WithProgram(c2, popFrame(c2.program))

extractPropertySignature(node, c) ==
    IF node.types[1].kind = "Undefined" THEN c
    ELSE LET c1 == extractPackStructOfType(node.types[1], c)
             c2 == EmitWithEntry(c1, ReflectionOp.propertySignature,
                                 SymVal("string", node.name))
             c3 == EmitIf("question" \in node.mods, c2, <<ReflectionOp.optional>>)
             c4 == EmitIf("readonly" \in node.mods, c3, <<ReflectionOp.readonly>>)
         IN  IF "description" \in node.mods
             THEN EmitWithEntry(c4, ReflectionOp.description,
                                SymVal("string", "description"))
             ELSE c4

extractPropertyDeclaration(node, c) ==
    IF node.types[1].kind = "Undefined" THEN c
    ELSE IF findReflectionConfigAt(node, c.mode) = "never" THEN c
    ELSE LET c1 == extractPackStructOfType(node.types[1], c)
             c2 == EmitWithEntry(c1, ReflectionOp.property,
                                 SymVal("string", node.name))
             c3 == EmitIf("question" \in node.mods, c2, <<ReflectionOp.optional>>)
             c4 == EmitIf("readonly" \in node.mods, c3, <<ReflectionOp.readonly>>)
             c5 == EmitIf("private" \in node.mods, c4, <<ReflectionOp.private>>)
             c6 == EmitIf("protected" \in node.mods, c5, <<ReflectionOp.protected>>)
             c7 == EmitIf("abstract" \in node.mods, c6, <<ReflectionOp.abstract>>)
             \* the arrow function around the initializer is a new object, which
             \* findOrAddStackEntry never finds in the stack
             c8 == IF "initializer" \in node.mods
                   THEN EmitWithPushed(c7, ReflectionOp.defaultValue,
                            SymVal("function", "initializer of " \o node.name))
                   ELSE c7
         IN  IF "description" \in node.mods
             THEN EmitWithEntry(c8, ReflectionOp.description,
                                SymVal("string", "description"))
             ELSE c8

extractConditionalType(node, c) ==
    LET c1 == WithProgram(c, pushConditionalFrame(c.program))
        c2 == extractPackStructOfType(node.types[1], c1)
        c3 == extractPackStructOfType(node.types[2], c2)
        c4 == Emit(c3, <<ReflectionOp.extends>>)
        c5 == extractPackStructOfType(node.types[3], c4)
        c6 == extractPackStructOfType(node.types[4], c5)
        c7 == Emit(c6, <<ReflectionOp.condition>>)
    IN  WithProgram(c7, popFrame(c7.program))

extractInferType(node, c) ==
    LET frame == findConditionalFrame(c.program)
    IN  IF frame # 0
        THEN LET found == findVariable(c.program, node.name)
                 c1 == IF ~found.found
                       THEN WithProgram(c,
                                pushVariable(c.program, node.name, frame).program)
                       ELSE c
                 variable == findVariable(c1.program, node.name)
             IN  IF ~variable.found
                 THEN [c1 EXCEPT !.error = "Could not find inserted infer variable"]
                 ELSE [ Emit(c1, <<ReflectionOp.infer, variable.frameOffset,
                                   variable.stackIndex>>)
                        EXCEPT !.inferLog = Append(@,
                            [ name |-> node.name,
                              frameOffset |-> variable.frameOffset,
                              stackIndex |-> variable.stackIndex,
                              depth |-> Len(c1.program.frame),
                              conditional |-> frame,
                              inserted |-> ~found.found,
                              coRoutines |-> Len(c1.program.activeCoRoutines) ]) ]
        ELSE Emit(c, <<ReflectionOp.never>>)

extractFunctionLike(node, c) ==
    IF findReflectionConfigAt(node, c.mode) = "never" THEN c
    ELSE LET empty == isEmpty(c.program)
             c1 == IF ~empty THEN WithProgram(c, pushFrame(c.program, FALSE)) ELSE c
             below == [c1 EXCEPT !.mode = findReflectionConfigAt(node, c.mode)]
             c2 == extractParameters(SubSeq(node.types, 1, Len(node.types) - 1),
                                     node, below)
             type == node.types[Len(node.types)]
             c3 == IF type.kind # "Undefined"
                   THEN extractPackStructOfType(type, c2)
                   ELSE Emit(c2, <<ReflectionOp.any>>)
             name == IF node.kind = "Constructor" THEN "constructor" ELSE node.name
             op == IF node.kind \in {"MethodDeclaration", "Constructor"}
                   THEN ReflectionOp.method ELSE ReflectionOp.function
             c4 == EmitWithEntry(c3, op, SymVal("string", name))
             c5 == IF node.kind = "MethodDeclaration"
                   THEN LET m1 == EmitIf("private" \in node.mods, c4,
                                         <<ReflectionOp.private>>)
                            m2 == EmitIf("protected" \in node.mods, m1,
                                         <<ReflectionOp.protected>>)
                        IN  EmitIf("abstract" \in node.mods, m2,
                                   <<ReflectionOp.abstract>>)
                   ELSE c4
         IN  [c5 EXCEPT !.mode = c.mode]

extractUnionType(node, c) ==
    IF Len(node.types) = 0 THEN c
    ELSE IF Len(node.types) = 1 THEN extractPackStructOfType(node.types[1], c)
    ELSE LET empty == isEmpty(c.program)
             c1 == IF ~empty THEN WithProgram(c, pushFrame(c.program, FALSE)) ELSE c
             c2 == Emit(extractAll(node.types, c1), <<ReflectionOp.union>>)
         IN  IF ~empty THEN WithProgram(c2, popFrame(c2.program)) ELSE c2

extractIndexSignature(node, c) ==
    LET c1 == IF node.types[1].kind # "Undefined"
              THEN extractPackStructOfType(node.types[1], c)
              ELSE Emit(c, <<ReflectionOp.any>>)
    IN  Emit(extractPackStructOfType(node.types[2], c1),
             <<ReflectionOp.indexSignature>>)

extractPackStructOfType(node, c) ==
    IF c.error # "" THEN c
    ELSE IF node.kind = "ParenthesizedType"
    THEN extractPackStructOfType(node.types[1], c)
    ELSE CASE node.kind \in DOMAIN KeywordOps -> Emit(c, <<KeywordOps[node.kind]>>)
           [] node.kind = "TrueKeyword" ->
                EmitWithPushed(c, ReflectionOp.literal, SymVal("expression", "true"))
           [] node.kind = "FalseKeyword" ->
                EmitWithPushed(c, ReflectionOp.literal, SymVal("expression", "false"))
           [] node.kind \in {"ClassDeclaration", "ClassExpression"} ->
                extractClass(node, c)
           [] node.kind = "IntersectionType" -> extractIntersection(node, c)
           [] node.kind = "MappedType" -> extractMappedType(node, c)
           [] node.kind \in {"TypeLiteral", "InterfaceDeclaration"} ->
                extractObjectLiteral(node, c)
           [] node.kind = "TypeReference" ->
                extractPackStructOfTypeReference(node, c)
           [] node.kind = "ArrayType" ->
                Emit(extractPackStructOfType(node.types[1], c), <<ReflectionOp.array>>)
           [] node.kind = "PropertySignature" -> extractPropertySignature(node, c)
           [] node.kind = "PropertyDeclaration" -> extractPropertyDeclaration(node, c)
           [] node.kind = "ConditionalType" -> extractConditionalType(node, c)
           [] node.kind = "InferType" -> extractInferType(node, c)
           [] node.kind \in FunctionLikeKinds -> extractFunctionLike(node, c)
           [] node.kind = "LiteralType" ->
                IF node.name = "null" THEN Emit(c, <<ReflectionOp.null>>)
                ELSE EmitWithEntry(c, ReflectionOp.literal,
                                   SymVal("expression", node.name))
           [] node.kind = "UnionType" -> extractUnionType(node, c)
           [] node.kind = "IndexSignature" -> extractIndexSignature(node, c)
           [] node.kind = "TypeOperator" ->
                IF "keyof" \in node.mods
                THEN Emit(extractPackStructOfType(node.types[1], c),
                          <<ReflectionOp.keyof>>)
                ELSE c
           [] node.kind = "IndexedAccessType" ->
                Emit(extractPackStructOfType(node.types[2],
                         extractPackStructOfType(node.types[1], c)),
                     <<ReflectionOp.query>>)
           [] OTHER -> Emit(c, <<ReflectionOp.any>>)

\* ensureImportIsEmitted()
ensureImportIsEmitted(c, name, resolved) ==
    IF resolved.importSpecifier
    THEN [c EXCEPT !.syntheticImports = @ \cup {name}]
    ELSE c

extractPackStructOfTypeReference(type, c) ==
    LET name == type.name
    IN  IF name \in DOMAIN knownClasses THEN Emit(c, <<knownClasses[name]>>)
        ELSE IF name = "Promise"
        THEN LET c1 == IF "typeArguments" \in type.mods /\ Len(type.types) > 0
                       THEN extractPackStructOfType(type.types[1], c)
                       ELSE Emit(c, <<ReflectionOp.any>>)
             IN  Emit(c1, <<ReflectionOp.promise>>)
        ELSE IF name \in DOMAIN TypeNumberBrand
        THEN Emit(c, <<ReflectionOp.numberBrand, TypeNumberBrand[name]>>)
        ELSE
        LET variable == findVariable(c.program, name)
            resolved == resolveDeclaration(name)
            declaration == resolved.declaration
        IN  IF variable.found
            THEN Emit(c, <<ReflectionOp.loads, variable.frameOffset,
                           variable.stackIndex>>)
            ELSE IF ~resolved.found THEN Emit(c, <<ReflectionOp.any>>)
            ELSE CASE declaration.kind \in {"TypeAliasDeclaration",
                                              "InterfaceDeclaration"} ->
                        LET r == pushStack(c.program, getDeclarationVariableName(name))
                            c1 == WithProgram(c, r.program)
                            c2 == IF resolved.importSpecifier
                                  THEN [c1 EXCEPT !.embedDeclarations =
                                                      MapSet(@, name, name)]
                                  ELSE [c1 EXCEPT !.compileDeclarations =
                                                      MapSet(@, name, name)]
                        IN  IF "typeArguments" \in type.mods
                            THEN Emit(extractAll(type.types, c2),
                                      <<ReflectionOp.inlineCall, r.result,
                                        Len(type.types)>>)
                            ELSE Emit(c2, <<ReflectionOp.inline, r.result>>)
                   [] declaration.kind = "TypeLiteral" ->
                        [c EXCEPT !.embedDeclarations = MapSet(@, name, name)]
                   [] declaration.kind = "MappedType" ->
                        extractPackStructOfType(declaration, c)
                   [] declaration.kind = "EnumDeclaration" ->
                        \* the arrow function is a new object, which
                        \* findOrAddStackEntry never finds in the stack
                        EmitWithPushed(ensureImportIsEmitted(c, name, resolved),
                                      ReflectionOp.enum,
                                      SymVal("function", "() => " \o name))
                   [] declaration.kind = "ClassDeclaration" ->
                        LET c1 == ensureImportIsEmitted(c, name, resolved)
                            c2 == IF "typeArguments" \in type.mods
                                  THEN extractAll(type.types, c1)
                                  ELSE c1
                            r == pushStack(c2.program,
                                           SymVal("function", "() => " \o name))
                            c3 == Emit(WithProgram(c2, r.program),
                                       <<ReflectionOp.classReference>>)
                        IN  [ WithProgram(c3, pushOp(c3.program, <<r.result>>))
                              EXCEPT !.emitted[Len(c3.emitted)].operands = 1,
                                     !.emitted[Len(c3.emitted)].args = <<r.result>> ]
                   [] OTHER -> extractPackStructOfType(declaration, c)

\* ------------------------------------------------------------------------
\* ReflectionTransformer: payload expressions and the decoration of carriers
\* ------------------------------------------------------------------------
\* valueToExpression(value): arrays, strings and numbers become literal
\* expressions, any other value is an expression already
valueToExpression(value) ==
    IF value.type = "array"
    THEN [ type |-> "ArrayLiteralExpression", id |-> "", chars |-> <<>>,
           items |-> [ i \in 1..Len(value.items) |->
                        IF value.items[i].type = "string"
                        THEN [value.items[i] EXCEPT !.type = "StringLiteral"]
                        ELSE IF value.items[i].type = "number"
                        THEN [value.items[i] EXCEPT !.type = "NumericLiteral"]
                        ELSE value.items[i] ] ]
    ELSE IF value.type = "string" THEN [value EXCEPT !.type = "StringLiteral"]
    ELSE IF value.type = "number" THEN [value EXCEPT !.type = "NumericLiteral"]
    ELSE value

\* packOpsAndStack(packStruct): undefined for a structure without ops
packOpsAndStack(packStruct) ==
    IF Len(packStruct.ops) = 0 THEN UndefinedVal
    ELSE valueToExpression(pack(packStruct))

\* getTypeOfType(type): the walker state after it and the expression returned
getTypeOfType(type, c) ==
    IF findReflectionConfigAt(type, c.mode) = "never"
    THEN [c |-> c, expression |-> UndefinedVal]
    ELSE LET packed(c1) ==
                 [c |-> c1, expression |-> packOpsAndStack(buildPackStruct(c1.program))]
         IN  packed(extractPackStructOfType(type, WithNewProgram(c)))

StaticTypeMember == Node("PropertyDeclaration", "__type", <<>>, <<>>, <<>>, {"static"})

\* the result of visiting a statement: the walker state, the statements that
\* replace it and the payload expressions attached, in order
Visited(c, statements, payloads) ==
    [c |-> c, statements |-> statements, payloads |-> payloads]

\* decorateClass without the test of the reflection mode
decorateClassMutNoModeTest(node, t) ==
    Visited(t.c, <<[node EXCEPT !.types = Append(@, StaticTypeMember)]>>,
            <<[name |-> node.name, expression |-> t.expression]>>)

\* decorateClass(node), `t` being what its getTypeOfType(node) call returns
decorateClass(node, t) ==
    IF findReflectionConfigAt(node, t.c.mode) = "never"
    THEN Visited(t.c, <<node>>, <<>>)
    ELSE Visited(t.c, <<[node EXCEPT !.types = Append(@, StaticTypeMember)]>>,
                 <<[name |-> node.name, expression |-> t.expression]>>)

\* decorateFunctionDeclaration(declaration), `t` as above
decorateFunctionDeclaration(declaration, t) ==
    IF t.expression.type = "undefined"
    THEN Visited(t.c, <<declaration>>, <<>>)
    ELSE Visited(t.c,
             << declaration,
                Node("ExpressionStatement", declaration.name, <<>>, <<>>, <<>>,
                     {"__type"}) >>,
             <<[name |-> declaration.name, expression |-> t.expression]>>)

\* Object.assign(expression, { __type: encodedType }), unless there is no type
decorateFunctionExpression(expression, t) ==
    IF t.expression.type = "undefined"
    THEN Visited(t.c, <<expression>>, <<>>)
    ELSE Visited(t.c,
             <<[Node("CallExpression", "Object.assign", <<>>, <<>>, <<>>,
                     {"__type"}) EXCEPT !.body = <<expression>>]>>,
             <<[name |-> expression.name, expression |-> t.expression]>>)

decorateArrow(expression, t) == decorateFunctionExpression(expression, t)

\* a call `name<typeArguments>(arguments)`: the arguments are its body
CallExpression(name, typeArguments, arguments) ==
    [Node("CallExpression", name, typeArguments, <<>>, <<>>, {"typeArguments"})
       EXCEPT !.body = arguments]

Identifier(name) == Node("Identifier", name, <<>>, <<>>, <<>>, {})

\* the expression getTypeOfType returned for `type`, as an argument of a call
TypeArgument(type) == Node("TypeExpression", "", <<type>>, <<>>, <<>>, {})

autoTypeFunctions == {"valuesOf", "propertiesOf", "typeOf"}

\* type.typeParameters.findIndex(v => v.name.text === name), from 0
findIndex(names, name) ==
    IF \E i \in 1..Len(names) : names[i] = name
    THEN (CHOOSE i \in 1..Len(names) :
              names[i] = name /\ \A j \in 1..(i - 1) : names[j] # name) - 1
    ELSE -1

\* parameter.type is `ReceiveType<X>` with X an identifier
isReceiveType(parameter) ==
    /\ parameter.types[1].kind = "TypeReference"
    /\ parameter.types[1].name = "ReceiveType"
    /\ "typeArguments" \in parameter.types[1].mods
    /\ Len(parameter.types[1].types) > 0
    /\ parameter.types[1].types[1].kind = "TypeReference"

\* the parameters of `type` from parameter i on that are typed ReceiveType<X>
\* with X a type parameter of `type`: the parameter and the position of X
RECURSIVE receiveTypes(_, _)
receiveTypes(type, i) ==
    IF i > Len(type.types) - 1 THEN <<>>
    ELSE LET index == IF isReceiveType(type.types[i])
                      THEN findIndex(type.params, type.types[i].types[1].types[1].name)
                      ELSE -1
         IN  IF index = -1 THEN receiveTypes(type, i + 1)
             ELSE <<[parameter |-> i, index |-> index]>> \o receiveTypes(type, i + 1)

\* the declaration a call's callee resolves to, when it is a generic function
isGenericFunction(found) ==
    /\ found.found
    /\ found.declaration.kind = "FunctionDeclaration"
    /\ found.declaration.params # <<>>

\* the nodes the call expression case passes to getTypeOfType, in order; a
\* type argument that does not exist ends the list
callTypes(node) ==
    IF node.name \in autoTypeFunctions THEN <<node.types[1]>>
    ELSE IF isGenericFunction(resolveDeclaration(node.name))
    THEN LET received == receiveTypes(resolveDeclaration(node.name).declaration, 1)
             present == { k \in 1..Len(received) :
                            \A j \in 1..k : received[j].index + 1 <= Len(node.types) }
         IN  [ k \in 1..Cardinality(present) |-> node.types[received[k].index + 1] ]
    ELSE <<>>

\* getTypeOfType on each of `types` in turn, up to the first that returns
\* undefined: the walker state and the expressions returned
RECURSIVE getTypesOfTypes(_, _)
getTypesOfTypes(types, acc) ==
    IF types = <<>> THEN acc
    ELSE IF acc.expressions # <<>>
            /\ acc.expressions[Len(acc.expressions)].type = "undefined"
    THEN acc
    ELSE LET next(t) ==
                 getTypesOfTypes(Tail(types),
                     [c |-> t.c, expressions |-> Append(acc.expressions, t.expression)])
         IN  next(getTypeOfType(Head(types), acc.c))

\* the state of the parameter loop of a call: the arguments so far,
\* `replaced`, the error thrown, and whether the loop returned the node
CallState(args, replaced, error, returned) ==
    [args |-> args, replaced |-> replaced, error |-> error, returned |-> returned]

\* the loop over type.parameters of the call expression case, from parameter
\* i, `k` ReceiveType parameters being done; `expressions` is what the
\* getTypeOfType calls of the loop return, in order
RECURSIVE injectReceiveTypes(_, _, _, _, _, _)
injectReceiveTypes(node, type, expressions, i, k, a) ==
    IF i > Len(type.types) - 1 \/ a.returned THEN a
    ELSE LET padded == IF i > Len(a.args)
                       THEN Append(a.args, Identifier("undefined"))
                       ELSE a.args
             index == IF isReceiveType(type.types[i])
                      THEN findIndex(type.params, type.types[i].types[1].types[1].name)
                      ELSE -1
         IN  IF index = -1
             THEN injectReceiveTypes(node, type, expressions, i + 1, k,
                      CallState(padded, a.replaced, "", FALSE))
             ELSE IF index + 1 > Len(node.types)
             THEN CallState(padded, a.replaced, "TypeError", TRUE)
             ELSE IF expressions[k + 1].type = "undefined"
             THEN CallState(padded, a.replaced, "", TRUE)
             ELSE injectReceiveTypes(node, type, expressions, i + 1, k + 1,
                      CallState([padded EXCEPT ![i] = TypeArgument(node.types[index + 1])],
                                TRUE, "", FALSE))

\* the call expression case of the visitor, for a call with type arguments;
\* `r` is what the getTypeOfType calls on callTypes(node) return
updateCallExpression(node, r) ==
    LET payloads ==
            [ k \in 1..Len(r.expressions) |->
                [name |-> node.name, expression |-> r.expressions[k]] ]
        updated(a) ==
            IF a.error # ""
            THEN Visited([r.c EXCEPT !.error = a.error], <<node>>, <<>>)
            ELSE IF a.replaced /\ ~a.returned
            THEN Visited(r.c, <<[node EXCEPT !.body = a.args]>>, payloads)
            ELSE Visited(r.c, <<node>>, <<>>)
    IN  IF node.name \in autoTypeFunctions
        THEN IF r.expressions[1].type = "undefined" THEN Visited(r.c, <<node>>, <<>>)
             ELSE Visited(r.c,
                      <<[node EXCEPT !.body =
                             Append(IF node.body = <<>>
                                    THEN <<Node("ArrayLiteralExpression", "", <<>>,
                                                <<>>, <<>>, {})>>
                                    ELSE node.body,
                                    TypeArgument(node.types[1]))]>>,
                      payloads)
        ELSE IF isGenericFunction(resolveDeclaration(node.name))
        THEN updated(injectReceiveTypes(node, resolveDeclaration(node.name).declaration,
                         r.expressions, 1, 0,
                         CallState(node.body, FALSE, "", FALSE)))
        ELSE Visited(r.c, <<node>>, <<>>)

\* the visitor of transformSourceFile: the children first, under the mode the
\* node passes down to them, then the node itself
RECURSIVE visitor(_, _)
RECURSIVE visitNodes(_, _)
visitNodes(nodes, acc) ==
    IF nodes = <<>> THEN acc
    ELSE LET next(r) ==
                 visitNodes(Tail(nodes),
                     Visited(r.c, acc.statements \o r.statements,
                             acc.payloads \o r.payloads))
         IN  next(visitor(Head(nodes), acc.c))

visitEachChild(node, c) ==
    LET below == [c EXCEPT !.mode = findReflectionConfigAt(node, c.mode)]
        updated(t, b) ==
            Visited([b.c EXCEPT !.mode = c.mode],
                    <<[node EXCEPT !.types = t.statements, !.body = b.statements]>>,
                    t.payloads \o b.payloads)
        withTypes(t) == updated(t, visitNodes(node.body, Visited(t.c, <<>>, <<>>)))
    IN  withTypes(visitNodes(node.types, Visited(below, <<>>, <<>>)))

CarrierKinds ==
    {"ClassDeclaration", "ClassExpression", "FunctionExpression",
     "FunctionDeclaration", "ArrowFunction"}

visitor(node, c) ==
    LET after(v) ==
            LET merged(d) == Visited(d.c, d.statements, v.payloads \o d.payloads)
                decorated(n, t) ==
                    CASE n.kind \in {"ClassDeclaration", "ClassExpression"} ->
                           merged(decorateClass(n, t))
                      [] n.kind = "FunctionExpression" ->
                           merged(decorateFunctionExpression(n, t))
                      [] n.kind = "FunctionDeclaration" ->
                           merged(decorateFunctionDeclaration(n, t))
                      [] n.kind = "ArrowFunction" ->
                           merged(decorateArrow(n, t))
                handled(n, r) ==
                    IF n.kind \in CarrierKinds
                    THEN decorated(n, [c |-> r.c, expression |-> r.expressions[1]])
                    ELSE merged(updateCallExpression(n, r))
                passed(n) ==
                    IF n.kind \in CarrierKinds THEN <<n>> ELSE callTypes(n)
            IN  IF \/ node.kind \in CarrierKinds
                   \/ node.kind = "CallExpression" /\ "typeArguments" \in node.mods
                THEN handled(v.statements[1],
                             getTypesOfTypes(passed(v.statements[1]),
                                             [c |-> v.c, expressions |-> <<>>]))
                ELSE v
    IN  after(visitEachChild(node, c))

\* compileDeclarations(node) of the hoisting pass on one statement
compileDeclaration(node, c) ==
    IF /\ node.kind \in {"TypeAliasDeclaration", "InterfaceDeclaration"}
       /\ MapHas(c.compileDeclarations, node.name)
    THEN LET d == MapGet(c.compileDeclarations, node.name)
             c1 == WithNewProgram(
                       [c EXCEPT !.compileDeclarations = MapDelete(@, node.name)])
             c2 == pushTemplateParameters(node.params, c1)
             variable == getDeclarationVariableName(d.name).id
             typeProgramExpression(c3) == packOpsAndStack(buildPackStruct(c3.program))
             hoisted(c3) ==
                 Visited(c3,
                     << node,
                        Node("VariableStatement", variable, <<>>, <<>>, <<>>, {}) >>,
                     <<[name |-> variable, expression |-> typeProgramExpression(c3)]>>)
         IN  hoisted(extractPackStructOfType(
                 IF node.kind = "TypeAliasDeclaration" THEN node.types[1] ELSE node, c2))
    ELSE Visited(c, <<node>>, <<>>)

\* ------------------------------------------------------------------------
\* Inputs of the pack / unpack specification
\* ------------------------------------------------------------------------
SeqsUpTo(S, n) == UNION {[1..k -> S] : k \in 0..n}

\* opcode and operand values within the packable range 0 .. packSize - 1
OpValues == {0, 1, ReflectionOp.frame, packSize - 2, packSize - 1}

StackEntries ==
    { SymVal("string", "name"), SymVal("function", "thunk"),
      StrVal(<<33>>) }

\* the first value beyond the packable range
OverflowValues == {packSize}

PackStructs ==
    { PackStruct(o, s) : o \in SeqsUpTo(OpValues \cup OverflowValues, MaxOpsLen),
                         s \in SeqsUpTo(StackEntries, MaxStackLen) }

\* a payload is a string S or an array [e0, ..., e(k-1), S]
EncodedStrings == { StrVal(encodeOps(o)) : o \in SeqsUpTo(OpValues, MaxOpsLen) }
ValidPayloads ==
    EncodedStrings \cup
    { ArrVal(e \o <<s>>) : e \in SeqsUpTo(StackEntries, MaxStackLen),
                           s \in EncodedStrings }

VARIABLES
    pkPhase,      \* which of pack / unpack have been applied to pkInput
    pkInput,      \* the pack structure or payload the run started from
    pkStruct,     \* the current pack structure
    pkPayload,    \* the current payload
    program,      \* the CompilerProgram being built
    calls,        \* the number of calls made on `program`
    lastCall,     \* the last call made on `program` and what it returned
    coStarts,     \* the values returned by popCoRoutine, in call order
    error,        \* the message of the Error thrown by the last call, or ""
    walker,       \* the state of the walker: its program and the transformer maps
    walkPhase,    \* how far the construction of the walker's program has come
    walkNode,     \* the node extractPackStructOfType was last called on
    walkBefore,   \* the walker's program before that call
    tfFile,       \* the statements of this.sourceFile
    tfPhase,      \* the position of transformSourceFile
    tfPending,    \* the statements the running traversal has yet to visit
    tfOut,        \* the statements the running traversal has produced
    tfPayloads,   \* the payload expressions attached so far, with their names
    tfHoists,     \* the number of hoisted bindings emitted so far
    tfQueue,      \* compileDeclarations as the running hoisting pass found it
    tfSource,     \* the sourceFile argument of transformSourceFile
    cfgOverride,  \* this.reflectionMode, "<undefined>" while not set
    cfgDirs,      \* the directories from the file's directory up to the root
    cfgResolved,  \* this.resolvedTsConfig: the directories whose tsconfig is cached
    cfgReads,     \* the directories whose tsconfig.json readFileSync has read, in order
    cfgCall,      \* the last call: the doc tags of its node and the node's ancestors,
                  \* and the override it found
    cfgMode       \* the mode the last call returned, "<none>" before the first

packVars == <<pkPhase, pkInput, pkStruct, pkPayload>>
programVars == <<program, calls, lastCall, coStarts, error>>
walkVars == <<walker, walkPhase, walkNode, walkBefore>>
transformVars == <<tfFile, tfPhase, tfPending, tfOut, tfPayloads, tfHoists, tfQueue, tfSource>>
configVars == <<cfgOverride, cfgDirs, cfgResolved, cfgReads, cfgCall, cfgMode>>
vars == <<pkPhase, pkInput, pkStruct, pkPayload,
          program, calls, lastCall, coStarts, error,
          walker, walkPhase, walkNode, walkBefore,
          tfFile, tfPhase, tfPending, tfOut, tfPayloads, tfHoists, tfQueue, tfSource,
          cfgOverride, cfgDirs, cfgResolved, cfgReads, cfgCall, cfgMode>>

EmptyStruct == PackStruct(<<>>, <<>>)

NoCall == [name |-> "", arg |-> "", frame |-> 0, result |-> -1]

PackIdle ==
    /\ pkPhase = "idle"
    /\ pkInput = EmptyStruct
    /\ pkStruct = EmptyStruct
    /\ pkPayload = UndefinedVal

ProgramIdle ==
    /\ program = NewCompilerProgram
    /\ calls = 0
    /\ lastCall = NoCall
    /\ coStarts = <<>>
    /\ error = ""

PackInputs ==
    \/ /\ pkPhase = "struct"
       /\ pkInput \in PackStructs
       /\ pkStruct = pkInput
       /\ pkPayload = UndefinedVal
    \/ /\ pkPhase = "payload"
       /\ pkInput \in ValidPayloads
       /\ pkPayload = pkInput
       /\ pkStruct = EmptyStruct

WalkIdle ==
    /\ walker = WalkState(NewCompilerProgram, "default")
    /\ walkPhase = "new"
    /\ walkNode = NoNode
    /\ walkBefore = NewCompilerProgram

TransformIdle ==
    /\ tfFile = <<>>
    /\ tfPhase = "idle"
    /\ tfPending = <<>>
    /\ tfOut = <<>>
    /\ tfPayloads = <<>>
    /\ tfHoists = 0
    /\ tfQueue = {}
    /\ tfSource = <<>>

NoLookup == [path |-> <<>>, override |-> "<undefined>"]

ConfigIdle ==
    /\ cfgOverride = "<undefined>"
    /\ cfgDirs = <<>>
    /\ cfgResolved = {}
    /\ cfgReads = <<>>
    /\ cfgCall = NoLookup
    /\ cfgMode = "<none>"

PackInit == PackInputs /\ ProgramIdle /\ WalkIdle /\ TransformIdle /\ ConfigIdle

\* payload = pack(struct)
DoPack ==
    /\ pkPhase \in {"struct", "payload-unpacked"}
    /\ pkPayload' = pack(pkStruct)
    /\ pkPhase' = IF pkPhase = "struct" THEN "struct-packed"
                  ELSE "payload-unpacked-packed"
    /\ UNCHANGED <<pkInput, pkStruct>>
    /\ UNCHANGED <<programVars, walkVars, transformVars, configVars>>

\* struct = unpack(payload)
DoUnpack ==
    /\ pkPhase \in {"payload", "struct-packed"}
    /\ pkStruct' = unpack(pkPayload)
    /\ pkPhase' = IF pkPhase = "payload" THEN "payload-unpacked"
                  ELSE "struct-packed-unpacked"
    /\ UNCHANGED <<pkInput, pkPayload>>
    /\ UNCHANGED <<programVars, walkVars, transformVars, configVars>>

PackNext == DoPack \/ DoUnpack

SpecPack == PackInit /\ [][PackNext]_vars

\* ------------------------------------------------------------------------
\* The CompilerProgram under arbitrary sequences of calls
\* ------------------------------------------------------------------------
ProgramOps == {ReflectionOp.string}
VariableNames == {"X", "Y"}
ProgramStackEntries == {SymVal("string", "a"), SymVal("function", "thunk")}

Called(name, arg, f, result) ==
    /\ calls < MaxCalls
    /\ calls' = calls + 1
    /\ lastCall' = [name |-> name, arg |-> arg, frame |-> f, result |-> result]
    /\ UNCHANGED <<packVars, walkVars, transformVars, configVars>>

CallPushOp ==
    \E op \in ProgramOps :
        /\ program' = pushOp(program, <<op>>)
        /\ Called("pushOp", "", 0, -1)
        /\ error' = ""
        /\ UNCHANGED coStarts

CallPushStack ==
    \E e \in {SymVal("function", "thunk")} :
        LET r == pushStack(program, e)
        IN  /\ program' = r.program
            /\ Called("pushStack", e.id, 0, r.result)
            /\ error' = ""
            /\ UNCHANGED coStarts

CallFindOrAddStackEntry ==
    \E e \in ProgramStackEntries :
        LET r == findOrAddStackEntry(program, e)
        IN  /\ program' = r.program
            /\ Called("findOrAddStackEntry", e.id, 0, r.result)
            /\ error' = ""
            /\ UNCHANGED coStarts

CallPushFrame ==
    /\ program' = pushFrame(program, FALSE)
    /\ Called("pushFrame", "", 0, -1)
    /\ error' = ""
    /\ UNCHANGED coStarts

CallPushConditionalFrame ==
    /\ program' = pushConditionalFrame(program)
    /\ Called("pushConditionalFrame", "", 0, -1)
    /\ error' = ""
    /\ UNCHANGED coStarts

CallPopFrame ==
    /\ program' = popFrame(program)
    /\ Called("popFrame", "", Len(program.frame), -1)
    /\ error' = ""
    /\ UNCHANGED coStarts

CallPushCoRoutine ==
    /\ program' = pushCoRoutine(program)
    /\ Called("pushCoRoutine", "", 0, -1)
    /\ error' = ""
    /\ UNCHANGED coStarts

CallPopCoRoutine ==
    LET r == popCoRoutine(program)
    IN  /\ program' = r.program
        /\ Called("popCoRoutine", "", 0, r.result)
        /\ error' = r.error
        /\ coStarts' = IF r.error = "" THEN Append(coStarts, r.result)
                       ELSE coStarts

CallPushVariable ==
    \E name \in VariableNames, f \in 1..Len(program.frame) :
        LET r == pushVariable(program, name, f)
        IN  /\ program' = r.program
            /\ Called("pushVariable", name, f, r.result)
            /\ error' = ""
            /\ UNCHANGED coStarts

CallPushTemplateParameter ==
    \E name \in VariableNames :
        LET r == pushTemplateParameter(program, name)
        IN  /\ program' = r.program
            /\ Called("pushTemplateParameter", name, Len(program.frame), r.result)
            /\ error' = ""
            /\ UNCHANGED coStarts

ProgramInit == PackIdle /\ ProgramIdle /\ WalkIdle /\ TransformIdle /\ ConfigIdle

ProgramNext ==
    \/ CallPushOp
    \/ CallPushStack
    \/ CallFindOrAddStackEntry
    \/ CallPushFrame
    \/ CallPushConditionalFrame
    \/ CallPopFrame
    \/ CallPushCoRoutine
    \/ CallPopCoRoutine
    \/ CallPushVariable
    \/ CallPushTemplateParameter

SpecProgram == ProgramInit /\ [][ProgramNext]_vars

\* ------------------------------------------------------------------------
\* The walker on one CompilerProgram: the type parameters of a hoisted
\* declaration are bound first, a class member may have been emitted before,
\* then extractPackStructOfType runs on a node and the program is built.
\* ------------------------------------------------------------------------
InferX == InferType("X")
InferY == InferType("Y")
RefT == TypeReference("T")

Leaves ==
    { StringKeyword, InferX, InferY, RefT, TypeReference("A"),
      TypeReference("Missing") }

Wrap(t) ==
    { UnionType(<<t, StringKeyword>>),
      IntersectionType(<<t, NumberKeyword>>),
      TypeLiteral(<<PropertySignature("a", t, {})>>),
      FunctionLike("FunctionType", "", <<Parameter("p", t, {})>>, StringKeyword, {}),
      ArrayType(t),
      ParenthesizedType(t),
      MappedType("P", TypeOperator("keyof", RefT), t, {"question"}),
      TypeOperator("keyof", t),
      TypeOperator("readonly", ArrayType(t)),
      IndexedAccessType(t, StringKeyword),
      TypeReferenceWith("Box", <<t>>),
      ConditionalType(RefT, t, StringKeyword, NeverKeyword) }

Level1 == Leaves \cup UNION {Wrap(t) : t \in Leaves}

Conditionals ==
    { ConditionalType(RefT, e, t, NeverKeyword) :
          e \in Level1, t \in Leaves \cup Wrap(InferX) }

Carriers ==
    { DeclModel,
      ClassDeclaration("G", <<"T">>,
          << PropertyDeclaration("a", RefT, {"question", "initializer"}),
             PropertyDeclaration("a", StringKeyword, {}),
             FunctionLike("MethodDeclaration", "m",
                 <<Parameter("p", TypeReference("Color"), {"question"})>>,
                 TypeReference("Model"), {"private"}),
             FunctionLike("Constructor", "", <<>>, NoNode, {}) >>),
      FunctionLike("FunctionDeclaration", "f",
          <<Parameter("x", TypeReferenceWith("ReceiveType", <<RefT>>), {})>>,
          NoNode, {}),
      FunctionLike("ArrowFunction", "", <<Parameter("x", NoNode, {})>>,
          Keyword("VoidKeyword"), {}),
      DeclDerived, DeclMid, DeclLeaf, DeclLoop, DeclPing, DeclBox,
      DeclPartial.types[1],
      Keyword("TrueKeyword"), LiteralType("null"), LiteralType("'a'"),
      TypeReference("Date"), TypeReference("Promise"), TypeReference("integer"),
      TypeReference("ForeignLiteral"), TypeReference("Foreign"),
      IndexSignature(StringKeyword, NumberKeyword),
      Keyword("UnknownKeyword"),
      ConditionalType(RefT,
          MappedType("P", TypeOperator("keyof", RefT),
              TypeLiteral(<<PropertySignature("a", StringKeyword, {}),
                            PropertySignature("b", InferX, {})>>), {}),
          StringKeyword, NeverKeyword) }

WalkNodes == Level1 \cup UNION {Wrap(t) : t \in Level1} \cup Conditionals \cup Carriers

MemberNodes ==
    { PropertyDeclaration("m", StringKeyword, {}),
      PropertyDeclaration("n", TypeReference("A"), {}) }

TemplateNames == {"T", "X"}

\* typeProgram.pushTemplateParameter(param.name.text) of the hoisting pass
WalkTemplateParameter ==
    \E name \in TemplateNames :
        /\ walkPhase \in {"new", "template"}
        /\ ~HasVariable(walker.program.frame[1], name)
        /\ ~HasVariable(walker.program.frame[1], "X")
        /\ walker' = WithProgram(walker,
                         pushTemplateParameter(walker.program, name).program)
        /\ walkPhase' = "template"
        /\ UNCHANGED <<walkNode, walkBefore, packVars, programVars, transformVars, configVars>>

\* a member emitted before the node under consideration
WalkMember ==
    \E node \in MemberNodes :
        /\ walkPhase \in {"new", "template"}
        /\ walker' = extractPackStructOfType(node, walker)
        /\ walkPhase' = "member"
        /\ UNCHANGED <<walkNode, walkBefore, packVars, programVars, transformVars, configVars>>

WalkExtract ==
    \E node \in WalkNodes :
        /\ walkPhase \in {"new", "template", "member"}
        /\ walker' = extractPackStructOfType(node, walker)
        /\ walkNode' = node
        /\ walkBefore' = walker.program
        /\ walkPhase' = "walked"
        /\ UNCHANGED <<packVars, programVars, transformVars, configVars>>

\* program.buildPackStruct()
WalkBuild ==
    /\ walkPhase = "walked"
    /\ pkStruct' = buildPackStruct(walker.program)
    /\ walkPhase' = "built"
    /\ UNCHANGED <<pkPhase, pkInput, pkPayload, walker, walkNode, walkBefore,
                   programVars, transformVars, configVars>>

WalkInit == PackIdle /\ ProgramIdle /\ WalkIdle /\ TransformIdle /\ ConfigIdle

WalkNext == WalkTemplateParameter \/ WalkMember \/ WalkExtract \/ WalkBuild

SpecWalker == WalkInit /\ [][WalkNext]_vars

\* ------------------------------------------------------------------------
\* transformSourceFile, one visited statement at a time
\* ------------------------------------------------------------------------
\* the aliases and interfaces declared in the file, in two statement orders
LocalDeclarations == <<DeclA, DeclB, DeclC, DeclBox, DeclBase, DeclDerived>>
LocalDeclarationsReversed == <<DeclDerived, DeclBase, DeclBox, DeclC, DeclB, DeclA>>

ReferencedNames == {"A", "B", "C", "Box", "Derived", "Foreign", "Missing"}

\* a class with one property per referenced name
CarrierOf(names) ==
    ClassDeclaration("K", <<>>,
        [ i \in 1..Len(names) |->
            PropertyDeclaration(names[i], TypeReference(names[i]), {}) ])

FunctionOf(names) ==
    FunctionLike("FunctionDeclaration", "f",
        [ i \in 1..Len(names) |-> Parameter(names[i], TypeReference(names[i]), {}) ],
        NoNode, {})

SourceFiles ==
    { decls \o <<carrier>> :
        decls \in {LocalDeclarations, LocalDeclarationsReversed},
        carrier \in { CarrierOf(names) : names \in SeqsUpTo(ReferencedNames, MaxReferences) }
                    \cup { FunctionOf(<<n>>) : n \in ReferencedNames } }

\* a node under the doc tag `@reflection <tag>`; no tag for ""
Tagged(node, tag) == [node EXCEPT !.reflection = tag]

Tags == {"", "never", "default"}

\* class K { handler: A = (x: A) => ... }
TaggedClass(classTag, memberTag) ==
    Tagged(ClassDeclaration("K", <<>>,
        <<[Tagged(PropertyDeclaration("handler", TypeReference("A"), {"initializer"}),
                  memberTag)
             EXCEPT !.body = <<FunctionLike("ArrowFunction", "",
                                  <<Parameter("x", TypeReference("A"), {})>>,
                                  NoNode, {})>>]>>), classTag)

\* function f(x: A) { return class Inner { v: string } }
TaggedFunction(functionTag, innerTag) ==
    [Tagged(FunctionLike("FunctionDeclaration", "f",
                <<Parameter("x", TypeReference("A"), {})>>, NoNode, {}), functionTag)
       EXCEPT !.body = <<Tagged([ClassDeclaration("Inner", <<>>,
                                    <<PropertyDeclaration("v", StringKeyword, {})>>)
                                   EXCEPT !.kind = "ClassExpression"], innerTag)>>]

\* const fn = function g(x: string) {}
TaggedVariable(tag) ==
    [Tagged(Node("VariableStatement", "fn", <<>>, <<>>, <<>>, {}), tag)
       EXCEPT !.body = <<FunctionLike("FunctionExpression", "g",
                            <<Parameter("x", StringKeyword, {})>>, NoNode, {})>>]

DecoratedFiles ==
    { <<DeclA, carrier>> :
        carrier \in { TaggedClass(t1, t2) : t1, t2 \in Tags }
                    \cup { TaggedFunction(t1, t2) : t1, t2 \in Tags }
                    \cup { TaggedVariable(t) : t \in Tags } }

\* the type arguments and the arguments of the calls
CallTypeArguments ==
    { StringKeyword, TypeReference("A"),
      TypeOperator("readonly", ArrayType(StringKeyword)) }

CallArguments ==
    { <<>>, <<Identifier("a")>>, <<Identifier("a"), Identifier("b")>> }

\* name<...>(...); as a statement under the doc tag `tag`
CallStatement(name, typeArguments, arguments, tag) ==
    [Tagged(Node("ExpressionStatement", "", <<>>, <<>>, <<>>, {}), tag)
       EXCEPT !.body = <<CallExpression(name, typeArguments, arguments)>>]

CallFiles ==
    { <<DeclA, CallStatement(name, typeArguments, arguments, tag)>> :
        name \in {"f", "h", "typeOf", "Missing"},
        typeArguments \in { <<t>> : t \in CallTypeArguments },
        arguments \in CallArguments, tag \in {"", "never"} }
    \cup
    { <<DeclA, CallStatement("g", <<StringKeyword, t>>, arguments, tag)>> :
        t \in CallTypeArguments, arguments \in CallArguments, tag \in {"", "never"} }

TransformInit ==
    /\ PackIdle /\ ProgramIdle /\ ConfigIdle
    /\ walkPhase = "new" /\ walkNode = NoNode /\ walkBefore = NewCompilerProgram
    /\ \E mode \in {"default", "never"} :
           walker = WalkState(NewCompilerProgram, mode)
    /\ tfSource \in SourceFiles \cup DecoratedFiles \cup CallFiles
    /\ tfFile = tfSource
    /\ tfPhase = "start"
    /\ tfPending = <<>>
    /\ tfOut = <<>>
    /\ tfPayloads = <<>>
    /\ tfHoists = 0
    /\ tfQueue = {}

\* transformSourceFile up to the first traversal
TransformStart ==
    /\ tfPhase = "start"
    /\ IF findReflectionConfigAt(NoNode, walker.mode) = "never"
       THEN tfPhase' = "done" /\ UNCHANGED tfPending
       ELSE tfPhase' = "visitor" /\ tfPending' = tfFile
    /\ UNCHANGED <<tfFile, tfOut, tfPayloads, tfHoists, tfQueue, tfSource, walker, walkPhase, walkNode,
                   walkBefore, packVars, programVars, configVars>>

\* the visitor on the next statement
VisitStatement ==
    /\ tfPhase = "visitor"
    /\ tfPending # <<>>
    /\ \E r \in {visitor(Head(tfPending), walker)} :
           /\ walker' = r.c
           /\ tfOut' = tfOut \o r.statements
           /\ tfPayloads' = tfPayloads \o r.payloads
           /\ tfPhase' = IF r.c.error # "" THEN "failed" ELSE tfPhase
    /\ tfPending' = Tail(tfPending)
    /\ UNCHANGED <<tfFile, tfHoists, tfQueue, tfSource, walkPhase, walkNode, walkBefore,
                   packVars, programVars, configVars>>

\* the end of a traversal and the test of the while loop
TraversalDone ==
    /\ tfPhase \in {"visitor", "compile"}
    /\ tfPending = <<>>
    /\ tfFile' = tfOut
    /\ tfOut' = <<>>
    /\ IF Cardinality(walker.compileDeclarations) > 0
       THEN tfPhase' = "compile" /\ tfPending' = tfOut
       ELSE tfPhase' = "done" /\ tfPending' = <<>>
    /\ tfQueue' = walker.compileDeclarations
    /\ UNCHANGED <<tfPayloads, tfHoists, tfSource, walkVars, packVars, programVars, configVars>>

\* compileDeclarations on the next statement
CompileStatement ==
    /\ tfPhase = "compile"
    /\ tfPending # <<>>
    /\ \E r \in {compileDeclaration(Head(tfPending), walker)} :
           /\ Len(r.payloads) > 0 => tfHoists < MaxHoists
           /\ walker' = r.c
           /\ tfOut' = tfOut \o r.statements
           /\ tfPayloads' = tfPayloads \o r.payloads
           /\ tfHoists' = tfHoists + Len(r.payloads)
           /\ tfPhase' = IF r.c.error # "" THEN "failed" ELSE tfPhase
    /\ tfPending' = Tail(tfPending)
    /\ UNCHANGED <<tfFile, tfQueue, tfSource, walkPhase, walkNode, walkBefore, packVars,
                   programVars, configVars>>

TransformNext ==
    TransformStart \/ VisitStatement \/ TraversalDone \/ CompileStatement

SpecTransform == TransformInit /\ [][TransformNext]_vars

\* ------------------------------------------------------------------------
\* findReflectionConfig on one transformer instance
\* ------------------------------------------------------------------------
TagComments == {"<undefined>", "", "never", "default"}

\* a node with no tag or one tag, under a parent with no tag or one tag
NodePaths ==
    { <<own>> : own \in SeqsUpTo(TagComments, 1) }
    \cup { <<own, parent>> : own, parent \in SeqsUpTo(TagComments, 1) }

Directories ==
    { Directory(FALSE, FALSE, "<undefined>"), Directory(TRUE, FALSE, "<undefined>") }
    \cup { Directory(TRUE, TRUE, r) :
             r \in {"<undefined>", "<true>", "<false>", "", "always", "never"} }

ConfigInit ==
    /\ PackIdle /\ ProgramIdle /\ WalkIdle /\ TransformIdle
    /\ cfgOverride = "<undefined>"
    /\ cfgDirs \in SeqsUpTo(Directories, MaxDirs)
    /\ cfgResolved = {}
    /\ cfgReads = <<>>
    /\ cfgCall = NoLookup
    /\ cfgMode = "<none>"

\* withReflectionMode(mode)
WithReflectionMode ==
    /\ \E mode \in {"always", "default", "never"} : cfgOverride' = mode
    /\ UNCHANGED <<cfgDirs, cfgResolved, cfgReads, cfgCall, cfgMode,
                   packVars, programVars, walkVars, transformVars>>

\* findReflectionConfig(node)
FindReflectionConfig ==
    /\ Len(cfgReads) < MaxReads
    /\ \E path \in NodePaths :
           /\ cfgCall' = [path |-> path, override |-> cfgOverride]
           /\ \E r \in {findReflectionConfig(path, cfgOverride, cfgDirs, cfgResolved)} :
                  /\ cfgMode' = r.mode
                  /\ cfgReads' = cfgReads \o r.reads
    /\ UNCHANGED <<cfgOverride, cfgDirs, cfgResolved,
                   packVars, programVars, walkVars, transformVars>>

ConfigNext == WithReflectionMode \/ FindReflectionConfig

SpecConfig == ConfigInit /\ [][ConfigNext]_vars

\* ------------------------------------------------------------------------
\* C1: for every pack structure P within the packable range,
\* unpack(pack(P)) has the opcode sequence of P and the stack entries of P
\* in the same order.
\* ------------------------------------------------------------------------
C1_UnpackPackRoundTrip ==
    pkPhase = "struct-packed-unpacked" =>
        /\ pkStruct.ops = pkInput.ops
        /\ pkStruct.stack = pkInput.stack

C1_Witness ==
    /\ pkPhase = "struct-packed-unpacked"
    /\ Len(pkInput.ops) = MaxOpsLen
    /\ Len(pkInput.stack) = MaxStackLen
    /\ pkInput.ops[1] = packSize - 1

\* ------------------------------------------------------------------------
\* C2 (as claimed): for every valid payload p, pack(unpack(p)) = p.
\* ------------------------------------------------------------------------
C2_PackUnpackAllPayloads ==
    pkPhase = "payload-unpacked-packed" => pkPayload = pkInput

\* C2 (amended): pack(unpack(p)) = p for every payload that is a string or
\* an array with at least one stack entry before the encoded string.
C2_PackUnpackRoundTrip ==
    (/\ pkPhase = "payload-unpacked-packed"
     /\ (pkInput.type = "array" => Len(pkInput.items) > 1))
        => pkPayload = pkInput

C2_Witness ==
    /\ pkPhase = "payload-unpacked-packed"
    /\ pkInput.type = "array"
    /\ Len(pkInput.items) = MaxStackLen + 1
    /\ Len(pkInput.items[Len(pkInput.items)].chars) > 0

\* ------------------------------------------------------------------------
\* C3: pack returns the encoded string alone when the stack is empty, and
\* otherwise the stack entries in order followed by the encoded string; the
\* encoded string has one character per op, in order, code = value + 33.
\* ------------------------------------------------------------------------
C3_EncodedAsSpecified(s, ops) ==
    /\ s.type = "string"
    /\ Len(s.chars) = Len(ops)
    /\ \A i \in 1..Len(ops) : s.chars[i] = ops[i] + 33

C3_PackShape ==
    pkPhase = "struct-packed" =>
        IF Len(pkInput.stack) = 0
        THEN C3_EncodedAsSpecified(pkPayload, pkInput.ops)
        ELSE /\ pkPayload.type = "array"
             /\ Len(pkPayload.items) = Len(pkInput.stack) + 1
             /\ \A i \in 1..Len(pkInput.stack) :
                    pkPayload.items[i] = pkInput.stack[i]
             /\ C3_EncodedAsSpecified(pkPayload.items[Len(pkPayload.items)],
                                      pkInput.ops)

C3_Witness ==
    /\ pkPhase = "struct-packed"
    /\ Len(pkInput.stack) = MaxStackLen
    /\ pkInput.stack[1] # pkInput.stack[2]
    /\ Len(pkInput.ops) = MaxOpsLen

\* ------------------------------------------------------------------------
\* C7: once all coroutines are closed, buildPackStruct yields the main ops
\* alone when no coroutine was built; otherwise `jump, mainOffset`, then the
\* completed coroutines in closing order, each ending in `return`, then the
\* main ops, where mainOffset is the index of the first main op and each
\* value returned by popCoRoutine is the index of that coroutine's first op.
\* ------------------------------------------------------------------------
RECURSIVE C7_SumLen(_, _)
C7_SumLen(ss, n) == IF n = 0 THEN 0 ELSE Len(ss[n]) + C7_SumLen(ss, n - 1)

\* the ops at the 0-based indices from .. from + n - 1
C7_Slice(ops, from, n) == SubSeq(ops, from + 1, from + n)

C7_CoRoutineLayout ==
    Len(program.activeCoRoutines) = 0 =>
        LET built == buildPackStruct(program).ops
            co == program.coRoutines
        IN  IF Len(co) = 0
            THEN built = program.ops
            ELSE /\ built[1] = ReflectionOp.jump
                 /\ built[2] = Len(built) - Len(program.ops)
                 /\ C7_Slice(built, built[2], Len(program.ops)) = program.ops
                 /\ Len(coStarts) = Len(co)
                 /\ \A i \in 1..Len(co) :
                        /\ co[i][Len(co[i])] = ReflectionOp.return
                        /\ coStarts[i] = 2 + C7_SumLen(co, i - 1)
                        /\ C7_Slice(built, coStarts[i], Len(co[i])) = co[i]

C7_Witness ==
    /\ Len(program.activeCoRoutines) = 0
    /\ Len(program.coRoutines) = 2
    /\ Len(program.coRoutines[1]) > 1
    /\ coStarts[2] > 3

\* ------------------------------------------------------------------------
\* C4: in every pack structure produced by buildPackStruct after a run of
\* the walker, no opcode value and no operand value is 64 or greater.
\* ------------------------------------------------------------------------
C4_ValuesBelowPackSize ==
    walkPhase = "built" =>
        \A i \in 1..Len(pkStruct.ops) : pkStruct.ops[i] < packSize

\* ------------------------------------------------------------------------
\* C5: each opcode the walker emits is followed by exactly as many operand
\* values as the opcode-to-arity map OPs declares for it.
\* ------------------------------------------------------------------------
C5_OperandsMatchArity ==
    walkPhase \in {"walked", "built"} =>
        \A i \in 1..Len(walker.emitted) :
            walker.emitted[i].operands = OPs[walker.emitted[i].op]

\* ------------------------------------------------------------------------
\* C6: frames are balanced: for every type form the walker handles, the
\* current frame after emitting the type is the frame that was current
\* before emitting it.
\* ------------------------------------------------------------------------
C6_FramesBalanced ==
    walkPhase \in {"walked", "built"} =>
        /\ Len(walker.program.frame) = Len(walkBefore.frame)
        /\ walker.program.frame[Len(walker.program.frame)].opIndex
               = walkBefore.frame[Len(walkBefore.frame)].opIndex

\* ------------------------------------------------------------------------
\* C8 (as claimed): within one conditional-type body, every `infer X` with
\* the same name emits `infer` with the same (frameOffset, stackIndex) pair,
\* wherever the occurrence sits in the body.
\* ------------------------------------------------------------------------
RECURSIVE ContainsKind(_, _)
ContainsKind(node, kind) ==
    \/ node.kind = kind
    \/ \E i \in 1..Len(node.types) : ContainsKind(node.types[i], kind)

\* the node walked last is a conditional type with no conditional type inside
C8_OneConditionalBody ==
    /\ walkPhase \in {"walked", "built"}
    /\ walkNode.kind = "ConditionalType"
    /\ \A i \in 1..Len(walkNode.types) :
           ~ContainsKind(walkNode.types[i], "ConditionalType")

C8_SamePairEverywhere ==
    C8_OneConditionalBody =>
        \A i, j \in 1..Len(walker.inferLog) :
            walker.inferLog[i].name = walker.inferLog[j].name =>
                /\ walker.inferLog[i].frameOffset = walker.inferLog[j].frameOffset
                /\ walker.inferLog[i].stackIndex = walker.inferLog[j].stackIndex

\* C8 (amended): within one conditional-type body, every `infer X` with the
\* same name emits the same stackIndex, and a frameOffset that counts the
\* frames open between the occurrence and the frame binding X, so that all
\* occurrences address the same binding.
C8_SameBindingEverywhere ==
    C8_OneConditionalBody =>
        \A i, j \in 1..Len(walker.inferLog) :
            walker.inferLog[i].name = walker.inferLog[j].name =>
                /\ walker.inferLog[i].stackIndex = walker.inferLog[j].stackIndex
                /\ walker.inferLog[i].depth - walker.inferLog[i].frameOffset
                       = walker.inferLog[j].depth - walker.inferLog[j].frameOffset

C8_Witness ==
    /\ C8_OneConditionalBody
    /\ \E i, j \in 1..Len(walker.inferLog) :
           /\ walker.inferLog[i].name = walker.inferLog[j].name
           /\ walker.inferLog[i].frameOffset = 0
           /\ walker.inferLog[j].frameOffset = 2

\* ------------------------------------------------------------------------
\* C9: when `infer X` first binds X, the inserted `var` op is placed in the
\* opcode buffer of the `frame` op that opened the enclosing conditional
\* frame, directly after that op, wherever the `infer` occurs.
\* ------------------------------------------------------------------------
C9_Inserted ==
    Cardinality({i \in 1..Len(walker.inferLog) : walker.inferLog[i].inserted})

C9_VarAtFrameOpening ==
    C8_OneConditionalBody =>
        LET ops == walker.program.ops
            opened == Len(walkBefore.ops) + 1
        IN  /\ ops[opened] = ReflectionOp.frame
            /\ \A k \in 1..C9_Inserted : ops[opened + k] = ReflectionOp.var

\* ------------------------------------------------------------------------
\* C10: a type alias or interface referenced during the transformation of a
\* file gets no more than one hoisted binding in the output of that file.
\* ------------------------------------------------------------------------
\* the statements of the file as far as the transformation has produced them
C10_Statements ==
    IF tfPhase \in {"visitor", "compile", "failed"} THEN tfOut \o tfPending
    ELSE tfFile

C10_Bindings(name) ==
    Cardinality({ i \in 1..Len(C10_Statements) :
                    /\ C10_Statements[i].kind = "VariableStatement"
                    /\ C10_Statements[i].name = name })

C10_AtMostOneBinding ==
    \A n \in DOMAIN Declarations :
        C10_Bindings(getDeclarationVariableName(n).id) <= 1

\* ------------------------------------------------------------------------
\* C11: after transformSourceFile returns, every alias or interface that an
\* emitted `inline`/`inlineCall` op refers to by name, declared in the file
\* or reached through an import, has a hoisted binding in the output file.
\* ------------------------------------------------------------------------
\* the binding names the attached payloads carry on their stacks
C11_Referenced ==
    UNION { { tfPayloads[i].expression.items[j].id :
                j \in { k \in 1..Len(tfPayloads[i].expression.items) :
                          tfPayloads[i].expression.items[k].type = "identifier" } } :
            i \in 1..Len(tfPayloads) }

C11_EveryReferenceBound ==
    tfPhase = "done" =>
        \A id \in C11_Referenced :
            \E k \in 1..Len(tfFile) :
                /\ tfFile[k].kind = "VariableStatement"
                /\ tfFile[k].name = id

\* ------------------------------------------------------------------------
\* C12: the hoisting pass terminates with an empty compile-local queue, also
\* for aliases that reference themselves. Stated on finite runs: a pass over
\* the file never ends with the same non-empty queue it began with (the loop
\* depends on the queue and the declarations alone, so such a pass repeats
\* for ever).
\* ------------------------------------------------------------------------
C12_PassEnded == tfPhase = "compile" /\ tfPending = <<>>

C12_PassMakesProgress ==
    (C12_PassEnded /\ walker.compileDeclarations # {}) =>
        walker.compileDeclarations # tfQueue

\* ------------------------------------------------------------------------
\* C13 (as claimed): a carrier whose reflection mode resolves to `never` is
\* returned unchanged, and no `__type` is emitted for any node in its
\* subtree, even when a nested node carries its own `@reflection` tag.
\* ------------------------------------------------------------------------
Range(seq) == { seq[i] : i \in 1..Len(seq) }

\* the carriers in the tree of `node`: the name, the mode findReflectionConfig
\* resolves and the names of the carriers nested inside
RECURSIVE CarriersIn(_, _)
CarriersIn(node, inherited) ==
    LET mode == findReflectionConfigAt(node, inherited)
        nested == UNION { CarriersIn(child, mode) :
                            child \in Range(node.types) \cup Range(node.body) }
    IN  nested \cup
        IF node.kind \in CarrierKinds
        THEN {[name |-> node.name, mode |-> mode, kind |-> node.kind,
               inside |-> { k.name : k \in nested }]}
        ELSE {}

CarriersOfSource ==
    UNION { CarriersIn(tfSource[i], walker.mode) : i \in 1..Len(tfSource) }

PayloadNames == { tfPayloads[i].name : i \in 1..Len(tfPayloads) }

C14_StatementDecorated(statement) ==
    \E j \in 1..Len(tfFile) :
        /\ tfFile[j].kind = statement.kind
        /\ tfFile[j].name = statement.name
        /\ statement.kind = "ClassDeclaration" =>
               /\ tfFile[j].types # <<>>
               /\ tfFile[j].types[Len(tfFile[j].types)] = StaticTypeMember
        /\ statement.kind = "FunctionDeclaration" =>
               /\ j < Len(tfFile)
               /\ tfFile[j + 1].kind = "ExpressionStatement"
               /\ tfFile[j + 1].name = statement.name

C14_EveryCarrierDecorated ==
    tfPhase = "done" =>
        /\ \A k \in CarriersOfSource : k.mode # "never" => k.name \in PayloadNames
        /\ \A i \in 1..Len(tfSource) :
               (/\ tfSource[i].kind \in CarrierKinds
                /\ findReflectionConfigAt(tfSource[i], walker.mode) # "never")
                   => C14_StatementDecorated(tfSource[i])

\* ------------------------------------------------------------------------
\* C15 (as claimed): findReflectionConfig resolves the mode in this order:
\* the `@reflection` tag of the nearest node, from the node to the root, that
\* has one (with a text); otherwise the configured override if set; otherwise
\* the `reflection` key of the first project configuration file found walking
\* upward; otherwise `never`.
\* ------------------------------------------------------------------------
Min(set) == CHOOSE x \in set : \A y \in set : x <= y

\* the texts of the `@reflection` tags of the i-th node of the path
C15_Texts(i) == SelectSeq(cfgCall.path[i], LAMBDA comment : comment # "<undefined>")

C15_TaggedNodes == { i \in 1..Len(cfgCall.path) : C15_Texts(i) # <<>> }

C15_TagMode ==
    LET text == C15_Texts(Min(C15_TaggedNodes))[1]
    IN  IF text = "" THEN "default" ELSE text

C15_Called == cfgMode # "<none>"

C15_FirstFileFound ==
    C15_Called =>
        cfgMode =
            IF C15_TaggedNodes # {} THEN C15_TagMode
            ELSE IF cfgCall.override # "<undefined>" THEN cfgCall.override
            ELSE LET found == { j \in 1..Len(cfgDirs) : cfgDirs[j].exists }
                 IN  IF found = {} THEN "never"
                     ELSE IF /\ cfgDirs[Min(found)].parses
                             /\ cfgDirs[Min(found)].reflection # "<undefined>"
                     THEN parseReflectionMode(cfgDirs[Min(found)].reflection)
                     ELSE "never"

\* C15 (amended): as above, but the project configuration consulted is the
\* nearest one, walking upward, that parses and defines a `reflection` key;
\* files that do not parse or have no such key are passed over.
C15_FirstFileWithKey ==
    C15_Called =>
        cfgMode =
            IF C15_TaggedNodes # {} THEN C15_TagMode
            ELSE IF cfgCall.override # "<undefined>" THEN cfgCall.override
            ELSE LET keyed == { j \in 1..Len(cfgDirs) :
                                  /\ cfgDirs[j].exists
                                  /\ cfgDirs[j].parses
                                  /\ cfgDirs[j].reflection # "<undefined>" }
                 IN  IF keyed = {} THEN "never"
                     ELSE parseReflectionMode(cfgDirs[Min(keyed)].reflection)

C15_Witness ==
    /\ C15_Called
    /\ C15_TaggedNodes = {}
    /\ cfgCall.override = "<undefined>"
    /\ Len(cfgDirs) = 2
    /\ cfgDirs[1].exists /\ cfgDirs[1].reflection = "<undefined>"
    /\ cfgDirs[2].reflection = "<true>"
    /\ cfgMode = "default"

\* ------------------------------------------------------------------------
\* C16: packing a structure that holds an opcode or operand value beyond the
\* 64-value ceiling is rejected with a diagnostic instead of producing a
\* payload.
\* ------------------------------------------------------------------------
C16_Overflows(packStruct) ==
    \E i \in 1..Len(packStruct.ops) : packStruct.ops[i] >= packSize

C16_OverflowRejected ==
    (pkPhase = "struct-packed" /\ C16_Overflows(pkInput)) =>
        pkPayload.type \notin {"string", "array"}


\* ------------------------------------------------------------------------
\* C17: popFrame called while the current frame is the root frame (no frame
\* is open, the frame has no previous one) aborts with an error: it is not
\* silently accepted.  lastCall.frame is the length of the frame chain the
\* call found.
\* ------------------------------------------------------------------------
C17_PopAtRootAborts ==
    (lastCall.name = "popFrame" /\ lastCall.frame = 1) => error # ""

\* ------------------------------------------------------------------------
\* C18: popCoRoutine called while no coroutine is open raises an error and
\* leaves the compiler program (main ops, stack, frame chain, completed
\* coroutines, main offset) exactly as the call found it.
\* ------------------------------------------------------------------------
C18_IsCall(name) == calls' = calls + 1 /\ lastCall'.name = name

C18_NoCoRoutineOpen == Len(program.activeCoRoutines) = 0

C18_FailedCloseChangesNothing ==
    [][(C18_IsCall("popCoRoutine") /\ C18_NoCoRoutineOpen) =>
            /\ error' = "No active co routine found"
            /\ program' = program
            /\ coStarts' = coStarts]_vars

\* a failed close of a program that holds ops, an open frame and a stack entry
C18_Witness ==
    /\ lastCall.name = "popCoRoutine"
    /\ error = "No active co routine found"
    /\ Len(program.frame) > 1
    /\ program.ops # <<>>
    /\ program.stack # <<>>


\* ------------------------------------------------------------------------
\* C19: in every pack structure buildPackStruct produces after a run of the
\* walker, each operand that references the stack (the operand of literal,
\* property, propertySignature, parameter, method, function, template, enum,
\* classReference, defaultValue, description, inline, and the first operand
\* of inlineCall) is an index i with 0 <= i < |stack|, and the stack is
\* append-only: an entry once at index i stays at index i unchanged.
\* ------------------------------------------------------------------------
C19_StackOps ==
    { ReflectionOp.literal, ReflectionOp.property, ReflectionOp.propertySignature,
      ReflectionOp.parameter, ReflectionOp.method, ReflectionOp.function,
      ReflectionOp.template, ReflectionOp.enum, ReflectionOp.classReference,
      ReflectionOp.defaultValue, ReflectionOp.description, ReflectionOp.inline,
      ReflectionOp.inlineCall }

\* the operands the walker pushes with an op: OPs, and one for `function`
C19_Operands(op) ==
    IF op = ReflectionOp.function THEN 1
    ELSE IF op \in DOMAIN OPs THEN OPs[op] ELSE 0

RECURSIVE C19_IndicesInRange(_, _, _)
C19_IndicesInRange(ops, i, size) ==
    IF i > Len(ops) THEN TRUE
    ELSE /\ ops[i] \in C19_StackOps =>
                (i < Len(ops) /\ ops[i + 1] >= 0 /\ ops[i + 1] < size)
         /\ C19_IndicesInRange(ops, i + 1 + C19_Operands(ops[i]), size)

C19_IsPrefix(s, t) == Len(s) <= Len(t) /\ SubSeq(t, 1, Len(s)) = s

C19_StackIndicesValid ==
    /\ walkPhase \in {"walked", "built"} =>
           C19_IsPrefix(walkBefore.stack, walker.program.stack)
    /\ walkPhase = "built" =>
           /\ pkStruct.stack = walker.program.stack
           /\ C19_IndicesInRange(pkStruct.ops, 1, Len(pkStruct.stack))


\* ------------------------------------------------------------------------
\* C20: for an interface that extends parent interfaces, to any depth, no
\* member name appears more than once among the members emitted into its
\* objectLiteral frame: the own members are emitted first, and a parent
\* member whose name was already emitted is skipped, so that the first
\* declaration of a name is the one emitted.
\* ------------------------------------------------------------------------
\* the interface walked last extends a parent, and the walk went through
C20_ExtendingInterfaceWalked ==
    /\ walkPhase \in {"walked", "built"}
    /\ walkNode.kind = "InterfaceDeclaration"
    /\ walkNode.heritage # <<>>
    /\ walker.error = ""

\* the frames open where the members of the walked interface are emitted
C20_FrameDepth == walker.emitted[Len(walker.emitted)].depth

\* the propertySignature emissions into the frame of the walked interface
C20_Members ==
    SelectSeq([ i \in 1..Len(walker.emitted) |->
                  [ at |-> i, op |-> walker.emitted[i].op,
                    depth |-> walker.emitted[i].depth,
                    name |-> IF walker.emitted[i].operands = 1
                             THEN walker.program.stack[walker.emitted[i].args[1] + 1].id
                             ELSE "" ] ],
              LAMBDA e : e.op = ReflectionOp.propertySignature
                         /\ e.depth = C20_FrameDepth)

C20_NoMemberTwice ==
    C20_ExtendingInterfaceWalked =>
        /\ walker.emitted[Len(walker.emitted)].op = ReflectionOp.objectLiteral
        /\ \A i, j \in 1..Len(C20_Members) :
               C20_Members[i].name = C20_Members[j].name => i = j
        /\ Len(C20_Members) >= Len(walkNode.types)
        /\ \A i \in 1..Len(walkNode.types) :
               /\ C20_Members[i].name = walkNode.types[i].name
               /\ walkNode.types[i].types[1].kind \in DOMAIN KeywordOps =>
                      walker.emitted[C20_Members[i].at - 1].op
                          = KeywordOps[walkNode.types[i].types[1].kind]

\* Leaf extends Mid and Base, Mid extends Base: Base is reached twice, its
\* `id` and `name` are declared before it is reached
C20_Witness ==
    /\ C20_ExtendingInterfaceWalked
    /\ walkNode.name = "Leaf"
    /\ [ i \in 1..Len(C20_Members) |-> C20_Members[i].name ]
           = <<"id", "name", "extra">>


\* ------------------------------------------------------------------------
\* C21: a type reference that matches no known class, no number brand and no
\* bound variable, and for which no declaration is resolved, makes the
\* walker emit exactly one `any` op: no error is raised and no declaration
\* is enqueued for hoisting.  (`Promise` is declared by the standard library
\* and is not such a reference.)
\* ------------------------------------------------------------------------
C21_Unresolved(node, p) ==
    /\ node.kind = "TypeReference"
    /\ node.name \notin DOMAIN knownClasses \cup DOMAIN TypeNumberBrand \cup {"Promise"}
    /\ ~findVariable(p, node.name).found
    /\ node.name \notin DOMAIN Declarations

C21_AnyEntry(depth) ==
    [op |-> ReflectionOp.any, operands |-> 0, args |-> <<>>, depth |-> depth]

C21_UnresolvedEmitsAny ==
    [][(walkPhase' = "walked" /\ C21_Unresolved(walkNode', walker.program)) =>
            /\ walker'.program = [walker.program EXCEPT
                                      !.ops = Append(@, ReflectionOp.any)]
            /\ walker'.emitted = Append(walker.emitted,
                                        C21_AnyEntry(Len(walker.program.frame)))
            /\ walker'.error = ""
            /\ walker'.compileDeclarations = walker.compileDeclarations
            /\ walker'.embedDeclarations = walker.embedDeclarations]_vars

\* the unresolved reference walked after a member that enqueued a declaration
C21_Witness ==
    /\ walkPhase = "walked"
    /\ C21_Unresolved(walkNode, walkBefore)
    /\ walker.compileDeclarations # {}
    /\ walker.program.ops = Append(walkBefore.ops, ReflectionOp.any)


\* ------------------------------------------------------------------------
\* C22: for every type node whose syntactic form is not one of the supported
\* forms, type operators other than `keyof` (such as `readonly T[]`)
\* included, the walker emits exactly the single op `any`.
\* ------------------------------------------------------------------------
C22_SupportedKinds ==
    DOMAIN KeywordOps \cup FunctionLikeKinds \cup
    { "TrueKeyword", "FalseKeyword", "ClassDeclaration", "ClassExpression",
      "IntersectionType", "MappedType", "TypeLiteral", "InterfaceDeclaration",
      "TypeReference", "ArrayType", "PropertySignature", "PropertyDeclaration",
      "ConditionalType", "InferType", "LiteralType", "UnionType",
      "IndexSignature", "IndexedAccessType", "ParenthesizedType" }

C22_Unsupported(node) ==
    \/ node.kind = "TypeOperator" /\ "keyof" \notin node.mods
    \/ node.kind \notin C22_SupportedKinds \cup {"TypeOperator"}

C22_UnsupportedEmitsAny ==
    (walkPhase = "walked" /\ C22_Unsupported(walkNode)) =>
        walker.program.ops = Append(walkBefore.ops, ReflectionOp.any)


\* ------------------------------------------------------------------------
\* C23 (as claimed): the hoisted generic interface `interface Box<T> { v: T }`
\* compiles to exactly `template T`, `loads 0 0`, `propertySignature "v"`,
\* `objectLiteral`: no `frame` op at the top of the hoisted program, and the
\* reference to T from the member resolves with frameOffset 0.
\* ------------------------------------------------------------------------
C23_IdsOf(stack) == [ i \in 1..Len(stack) |-> stack[i].id ]

\* the program of the hoisting pass for Box: T bound, then the interface
C23_BoxHoisted ==
    /\ walkPhase = "built"
    /\ walkNode = DeclBox
    /\ walkBefore = pushTemplateParameter(NewCompilerProgram, "T").program

C23_BoxWithoutFrame ==
    C23_BoxHoisted =>
        /\ pkStruct.ops = << ReflectionOp.template, 0,
                             ReflectionOp.loads, 0, 0,
                             ReflectionOp.propertySignature, 1,
                             ReflectionOp.objectLiteral >>
        /\ C23_IdsOf(pkStruct.stack) = <<"T", "v">>

\* C23 (amended): the hoisted `interface Box<T> { v: T }` compiles to exactly
\* `template T`, `frame`, `loads 1 0`, `propertySignature "v"`,
\* `objectLiteral`: the interface opens its own frame, so the reference to T
\* from the member resolves one frame up, with frameOffset 1 and stackIndex 0.
C23_BoxWithFrame ==
    C23_BoxHoisted =>
        /\ pkStruct.ops = << ReflectionOp.template, 0,
                             ReflectionOp.frame,
                             ReflectionOp.loads, 1, 0,
                             ReflectionOp.propertySignature, 1,
                             ReflectionOp.objectLiteral >>
        /\ C23_IdsOf(pkStruct.stack) = <<"T", "v">>

C23_Witness ==
    /\ C23_BoxHoisted
    /\ pkStruct.ops[3] = ReflectionOp.frame
    /\ Len(walker.program.frame) = 1


\* ------------------------------------------------------------------------
\* C24 (as claimed): the hoisted alias `type Partial<T> = { [P in keyof T]?:
\* T[P] }` compiles to a main program `frame`, `var`, `loads 0 0`, `keyof`,
\* `mappedType <coOffset> <optional-bit>` and one coroutine whose body is
\* `loads 0 0`, `loads 0 0`, `query`, `return`: the references to T in the
\* constraint and to T and P in the coroutine body all resolve to
\* (frameOffset 0, stackIndex 0).
\* ------------------------------------------------------------------------
\* the program of the hoisting pass for Partial: T bound, then the alias type
C24_PartialHoisted ==
    /\ walkPhase = "built"
    /\ walkNode = DeclPartial.types[1]
    /\ walkBefore = pushTemplateParameter(NewCompilerProgram, "T").program

\* the ops of a hoisted Partial whose three references have the given offsets
C24_Program(constraintT, bodyT, bodyP) ==
    << ReflectionOp.jump, 10,
       ReflectionOp.loads, bodyT, 0, ReflectionOp.loads, bodyP, 0,
       ReflectionOp.query, ReflectionOp.return,
       ReflectionOp.template, 0,
       ReflectionOp.frame, ReflectionOp.var,
       ReflectionOp.loads, constraintT, 0, ReflectionOp.keyof,
       ReflectionOp.mappedType, 2, MappedModifier.optional >>

C24_AllOffsetsZero ==
    C24_PartialHoisted => pkStruct.ops = C24_Program(0, 0, 0)

\* C24 (amended): the hoisted `type Partial<T> = { [P in keyof T]?: T[P] }`
\* compiles to a main program `template T`, `frame`, `var`, `loads 1 0`,
\* `keyof`, `mappedType <coOffset> <optional-bit>` and one coroutine whose
\* body is `loads 2 0`, `loads 1 0`, `query`, `return`: each reference
\* carries the number of frames between it and the frame binding the name
\* (T in the root frame, P in the mapped type's frame, the coroutine body in
\* a frame of its own), and stackIndex 0.
C24_OffsetsCountFrames ==
    C24_PartialHoisted =>
        /\ pkStruct.ops = C24_Program(1, 2, 1)
        /\ walker.program.coRoutines
               = << << ReflectionOp.loads, 2, 0, ReflectionOp.loads, 1, 0,
                       ReflectionOp.query, ReflectionOp.return >> >>

C24_Witness ==
    /\ C24_PartialHoisted
    /\ Len(walker.program.coRoutines) = 1
    /\ pkStruct.ops[1] = ReflectionOp.jump


\* ------------------------------------------------------------------------
\* C25: for a call with explicit type arguments whose callee resolves to a
\* generic function declaration having a parameter at index p typed
\* `ReceiveType<X>`, X being the type parameter at position i, the rewritten
\* call has the payload of typeArguments[i] as its argument at index p, every
\* other argument that was supplied is unchanged, and arguments that were
\* missing are `undefined`; if no parameter qualifies the call is returned
\* unchanged.  The claim is read for a call under a reflection mode other
\* than `never` and a callee other than valuesOf, propertiesOf and typeOf.
\* ------------------------------------------------------------------------
\* the call statement of the source file has just been visited
C25_CallVisited ==
    /\ tfPhase = "visitor"
    /\ tfPending = <<>>
    /\ Len(tfSource) = 2 /\ Len(tfOut) = 2
    /\ tfSource[2].kind = "ExpressionStatement"
    /\ tfSource[2].reflection # "never"
    /\ tfSource[2].body[1].name \notin autoTypeFunctions

C25_Call == tfSource[2].body[1]

C25_Rewritten == tfOut[2].body[1]

\* the parameters of the callee, none when it is no generic function
C25_Parameters ==
    IF /\ C25_Call.name \in DOMAIN Declarations
       /\ Declarations[C25_Call.name].declaration.kind = "FunctionDeclaration"
       /\ Declarations[C25_Call.name].declaration.params # <<>>
    THEN SubSeq(Declarations[C25_Call.name].declaration.types, 1,
                Len(Declarations[C25_Call.name].declaration.types) - 1)
    ELSE <<>>

\* the type argument a parameter receives: 0 when the parameter is no
\* ReceiveType<X> of a type parameter X, else the position of X from 1
C25_Receives(p) ==
    LET parameter == C25_Parameters[p]
        names == Declarations[C25_Call.name].declaration.params
    IN  IF /\ parameter.types[1].kind = "TypeReference"
           /\ parameter.types[1].name = "ReceiveType"
           /\ parameter.types[1].types # <<>>
           /\ \E i \in 1..Len(names) : names[i] = parameter.types[1].types[1].name
        THEN CHOOSE i \in 1..Len(names) : names[i] = parameter.types[1].types[1].name
        ELSE 0

C25_Qualifying == { p \in 1..Len(C25_Parameters) : C25_Receives(p) # 0 }

C25_PayloadInjected ==
    C25_CallVisited =>
        IF C25_Qualifying = {}
        THEN C25_Rewritten = C25_Call
        ELSE /\ C25_Rewritten.types = C25_Call.types
             /\ Len(C25_Rewritten.body) >= Len(C25_Call.body)
             /\ Len(C25_Rewritten.body) >= Len(C25_Parameters)
             /\ \A p \in 1..Len(C25_Rewritten.body) :
                    IF p \in C25_Qualifying
                    THEN /\ C25_Rewritten.body[p].kind = "TypeExpression"
                         /\ C25_Rewritten.body[p].types
                                = <<C25_Call.types[C25_Receives(p)]>>
                         /\ \E k \in 1..Len(tfPayloads) :
                                /\ tfPayloads[k].name = C25_Call.name
                                /\ tfPayloads[k].expression.type # "undefined"
                    ELSE IF p <= Len(C25_Call.body)
                    THEN C25_Rewritten.body[p] = C25_Call.body[p]
                    ELSE C25_Rewritten.body[p].name = "undefined"


\* ------------------------------------------------------------------------
\* C26: pushVariable(name, frame), for the current frame or any enclosing
\* frame, binds name in that frame at an index equal to the number of
\* variables bound in that frame before the call and returns that index;
\* hence, after any sequence of pushVariable / pushTemplateParameter calls,
\* two different names bound in the same frame never share an index, and
\* findVariable returns the index returned at binding time.
\* ------------------------------------------------------------------------
C26_IndexIsPosition ==
    /\ \A f \in 1..Len(program.frame) :
           \A i \in 1..Len(program.frame[f].variables) :
               program.frame[f].variables[i].index = i - 1
    /\ (lastCall.name = "pushVariable" /\ lastCall.frame <= Len(program.frame)) =>
           LET variables == program.frame[lastCall.frame].variables
           IN  /\ lastCall.result = Len(variables) - 1
               /\ variables[Len(variables)].name = lastCall.arg
               /\ (\A i \in 1..(Len(variables) - 1) : variables[i].name # lastCall.arg)
                      => FindInFrame(program.frame[lastCall.frame], lastCall.arg).index
                             = lastCall.result


\* ------------------------------------------------------------------------
\* C27: after the walker emits `infer X` inside a conditional type, X is
\* bound in the nearest enclosing conditional frame (not in the current
\* frame, not in a frame outside that conditional), also when an outer frame
\* already binds the same name X as a template parameter or as an `infer`
\* variable of an enclosing conditional; outside any conditional frame
\* `infer X` emits `never` and binds nothing.  An entry of inferLog holds the
\* frames open at the occurrence, the frameOffset emitted and the position
\* of the nearest conditional frame: the frame the emitted `infer` addresses
\* is the one at position depth - frameOffset.
\* ------------------------------------------------------------------------
C27_BoundInNearestConditional ==
    walkPhase \in {"walked", "built"} =>
        /\ walker.error = "" =>
               \A i \in 1..Len(walker.inferLog) :
                   walker.inferLog[i].depth - walker.inferLog[i].frameOffset
                       = walker.inferLog[i].conditional
        /\ walkNode.kind = "InferType" =>
               walker.program =
                   [walkBefore EXCEPT !.ops = Append(@, ReflectionOp.never)]


\* ------------------------------------------------------------------------
\* C28: a type reference whose resolved declaration is a type literal is
\* enqueued in the embed-foreign queue and is inlined at the use site: the
\* reference appends ops to the program, so that it contributes a type for
\* the member or operator that consumes it.
\* ------------------------------------------------------------------------
C28_RefersToTypeLiteral(node, p) ==
    /\ node.kind = "TypeReference"
    /\ node.name \notin DOMAIN knownClasses \cup DOMAIN TypeNumberBrand \cup {"Promise"}
    /\ ~findVariable(p, node.name).found
    /\ node.name \in DOMAIN Declarations
    /\ Declarations[node.name].declaration.kind = "TypeLiteral"

C28_EmbeddedAndInlined ==
    (walkPhase = "walked" /\ C28_RefersToTypeLiteral(walkNode, walkBefore)) =>
        /\ MapHas(walker.embedDeclarations, walkNode.name)
        /\ Len(walker.program.ops) > Len(walkBefore.ops)


\* ------------------------------------------------------------------------
\* C29: over any sequence of findReflectionConfig calls on one transformer
\* instance, the contents of a given project configuration file (by absolute
\* path) are read and parsed at most once; later lookups that reach the same
\* path use the cached contents.  cfgReads is the sequence of readFileSync
\* calls of the instance, each entry the directory whose tsconfig.json was
\* read.
\* ------------------------------------------------------------------------
C29_ReadAtMostOnce ==
    \A i, j \in 1..Len(cfgReads) : cfgReads[i] = cfgReads[j] => i = j


\* ------------------------------------------------------------------------
\* C30: a single invocation of the walker on an interface declaration
\* terminates for every finite set of interface declarations, interfaces
\* whose `extends` clauses form a cycle included: parent members are merged
\* without revisiting an interface already being merged.  In finite-run
\* form: the walk of an interface declaration is never ended by the
\* exhaustion of the call stack, which is how a recursion of extractMembers
\* that does not end shows.
\* ------------------------------------------------------------------------
C30_InterfaceWalkEnds ==
    (walkPhase = "walked" /\ walkNode.kind = "InterfaceDeclaration") =>
        walker.error # "Maximum call stack size exceeded"

====
